---- MODULE Spec2Model ----
(***************************************************************************)
(* Model of the resumable benchmark engine of continue/eval:               *)
(*   - BenchmarkEngine (createSession, executeBenchmark, pauseSession,     *)
(*     resumeSession), SessionManager (initialize, saveSession,            *)
(*     loadSession) and UnifiedDiffPlugin.execute, over one session id;    *)
(*   - the two execution backends' runCode (local process, Docker);        *)
(*   - the Docker backend's byte-level functions: parseContainerLogs,      *)
(*     createTarStream and createTarHeader.                                *)
(* One process runs the engine; it can be killed at any step and started   *)
(* again (SessionManager.initialize).  Every await of the code is a step   *)
(* boundary of the model.                                                  *)
(***************************************************************************)
EXTENDS Integers, Sequences, FiniteSets, TLC

\* ------------------------------------------------------------------ bounds
MaxRuns   == 2      \* executeBenchmark invocations explored
MaxKills  == 1      \* process kills explored
MaxCtl    == 1      \* pauseSession / resumeSession invocations explored

\* ------------------------------------------------------------------ inputs
\* the run of session S1: models.map(m => m.uniqueId) and dataset.testCases ids,
\* the same lists in every executeBenchmark call
Models    == <<"m1", "m2">>
TestCases == <<"t1", "t2">>

VARIABLES
  proc,             \* "up" | "down": the benchmark process
  sess,             \* the in-memory BenchmarkSession object (SessionManager.sessions entry), or NoSession
  disk,             \* content of <sessionsDir>/<id>.json: NoFile, Partial or a session document
  wdoc,             \* JSON document of the fs.writeFile in flight, or NoSession
  pc,               \* position of executeBenchmark
  cpc,              \* position of pauseSession / resumeSession
  testCases,        \* UnifiedDiffPlugin.execute: const testCases: TestCaseResult[]
  idx,              \* UnifiedDiffPlugin.execute: next (model, testCase) pair of the nested loops, 1-based
  callResult,       \* how the latest engine call ended
  runs, kills, ctl, \* counters that bound the exploration
  observed,         \* what the latest concurrent reader of the session file saw
  det,              \* the environment answers each pair the same way every time
  outcome,          \* the deterministic environment's answer per pair
  killedAfterFirst, \* history: the process was killed when exactly the first pair had completed
  rc,               \* one runCode call of an execution backend, with the wall clock
  io,               \* the byte streams of the Docker backend: log stream parsing, tar building
  sm,               \* a SessionManager over a sessions directory of several files, with a clock
  pl,               \* one UnifiedDiffPlugin.execute call with its retry loop per pair
  cli,              \* one runBenchmark call of the command line
  mx,               \* the metric functions: an input list and the values computed from it
  lg,               \* a Logger: its level, its limit, the stored entries and what the outputs got
  fn                \* a function of the stored sessions or of configuration files: input and result

vars == <<proc, sess, disk, wdoc, pc, cpc, testCases, idx, callResult,
          runs, kills, ctl, observed, det, outcome, killedAfterFirst, rc, io, sm,
          pl, cli, mx, lg, fn>>

sessVars == <<proc, sess, disk, wdoc, pc, cpc, testCases, idx, callResult,
              runs, kills, ctl, observed, det, outcome, killedAfterFirst>>

\* the variables of the separately studied components
sideVars == <<rc, io, sm, pl, cli, mx, lg, fn>>

\* what an action on rc, on io, on sm leaves alone
execFrame == <<sessVars, io, sm, pl, cli, mx, lg, fn>>
ioFrame   == <<sessVars, rc, sm, pl, cli, mx, lg, fn>>
smFrame   == <<sessVars, rc, io, pl, cli, mx, lg, fn>>
plFrame   == <<sessVars, rc, io, sm, cli, mx, lg, fn>>
cliFrame  == <<sessVars, rc, io, sm, pl, mx, lg, fn>>
mxFrame   == <<sessVars, rc, io, sm, pl, cli, lg, fn>>
lgFrame   == <<sessVars, rc, io, sm, pl, cli, mx, fn>>
fnFrame   == <<sessVars, rc, io, sm, pl, cli, mx, lg>>

\* ------------------------------------------------------------------ data
NoSession == [kind |-> "none"]
NoFile    == [kind |-> "absent"]
Partial   == [kind |-> "partial"]

IsSession(x) == x.kind = "session"

NumPairs == Len(Models) * Len(TestCases)
PairIdx  == 1 .. NumPairs

\* the k-th pair's model with the loop over the test cases outside
ModelOfTestsOuter(k) == Models[((k - 1) % Len(Models)) + 1]

\* for (const model of models) for (const testCase of dataset.testCases): the k-th pair
ModelOf(k) == Models[((k - 1) \div Len(TestCases)) + 1]
TestOf(k)  == TestCases[((k - 1) % Len(TestCases)) + 1]

\* const testCaseId = `${testCase.id}-${model.uniqueId}`
CompositeId(k) == <<TestOf(k)>> \o <<"-">> \o <<ModelOf(k)>>

\* const result: TestCaseResult = { testCaseId, modelId, status, ... }
MkResult(k, st) ==
  [testCaseId |-> CompositeId(k), modelId |-> ModelOf(k), status |-> st]

Outcomes == {"completed", "failed"}

\* the session literal with totalTestCases counting the test cases only
NewSessionTestsOnly ==
  [kind      |-> "session",
   status    |-> "running",
   total     |-> Len(TestCases),
   completed |-> 0,
   failed    |-> 0,
   skipped   |-> 0,
   results   |-> <<>>]

\* BenchmarkEngine.createSession: the session literal
NewSession ==
  [kind      |-> "session",
   status    |-> "running",
   total     |-> Len(TestCases) * Len(Models),
   completed |-> 0,
   failed    |-> 0,
   skipped   |-> 0,
   results   |-> <<>>]

\* the lookup without the status condition: find(r => r.testCaseId === testCaseId)
FindCompletedAnyStatus(results, id) ==
  LET hits == {i \in 1 .. Len(results) : results[i].testCaseId = id}
  IN  IF hits = {} THEN 0 ELSE CHOOSE i \in hits : \A j \in hits : i <= j

\* session.results?.find(r => r.testCaseId === testCaseId && r.status === 'completed')
FindCompleted(results, id) ==
  LET hits == {i \in 1 .. Len(results) :
                 results[i].testCaseId = id /\ results[i].status = "completed"}
  IN  IF hits = {} THEN 0 ELSE CHOOSE i \in hits : \A j \in hits : i <= j

\* session.progress.completedTestCases++; if (failed) session.progress.failedTestCases++
BumpProgress(s, st) ==
  [s EXCEPT !.completed = @ + 1,
            !.failed    = IF st = "failed" THEN @ + 1 ELSE @]

\* the inner loop without the `continue` of the skip branch: the carried result is
\* pushed and the pair is executed and pushed again
PluginIterationNoContinue(s, tcs, k, st) ==
  LET e == FindCompleted(s.results, CompositeId(k))
  IN  IF e # 0
        THEN <<Append(Append(tcs, s.results[e]), MkResult(k, st)), BumpProgress(s, st)>>
        ELSE <<Append(tcs, MkResult(k, st)), BumpProgress(s, st)>>

\* one iteration of the inner loop of UnifiedDiffPlugin.execute for pair k with
\* the test case ending as st: <<testCases', session'>>
PluginIteration(s, tcs, k, st) ==
  LET e == FindCompleted(s.results, CompositeId(k))
  IN  IF e # 0
        THEN <<Append(tcs, s.results[e]), s>>
        ELSE <<Append(tcs, MkResult(k, st)), BumpProgress(s, st)>>

\* the success path without `session.results = result.testCases`
OnPluginSuccessKeepResults(s, tcs) == [s EXCEPT !.status = "completed"]

\* executeBenchmark, after the plugin returned: status 'completed', results = result.testCases
OnPluginSuccess(s, tcs) == [s EXCEPT !.status = "completed", !.results = tcs]

\* the catch block without `session.status = 'failed'`
OnPluginErrorKeepStatus(s) == s

\* executeBenchmark, catch block: status 'failed'
OnPluginError(s) == [s EXCEPT !.status = "failed"]

\* JSON.parse(sessionData) in loadSession / loadExistingSessions: a whole document gives
\* the session (the modelled fields are strings, numbers and arrays of them, which JSON
\* carries unchanged); anything else throws, and the caller takes it as no session
ParseFile(f) == IF IsSession(f) THEN f ELSE NoSession

\* ------------------------------------------------------------------ execution backend data
\* const { timeout = 30000, ... } = options (both backends)
DefaultTimeout == 30000

TimeoutOpts == {[set |-> FALSE, ms |-> 0], [set |-> TRUE, ms |-> 200]}

EffectiveTimeout(opt) == IF opt.set THEN opt.ms ELSE DefaultTimeout

\* the executed code: it exits by itself after ms milliseconds with an exit code, or runs
\* indefinitely
Programs ==
  {[forever |-> FALSE, ms |-> 100, exit |-> 0],
   [forever |-> FALSE, ms |-> 100, exit |-> 1],
   [forever |-> FALSE, ms |-> 300, exit |-> 0],
   [forever |-> TRUE,  ms |-> 0,   exit |-> 0]}

\* the instants (ms) at which the model looks at the clock
Instants == {0, 100, 200, 300, 30000, 40000}

\* the language strings handed to runCode
Languages == {"javascript", "Python", "bash", "cpp", "cobol", "constructor"}

\* language.toLowerCase(), over Languages
ToLowerCase(l) == IF l = "Python" THEN "python" ELSE l

\* options.files: the names of the additional files
FileOpts == {{}, {"data.txt"}}

\* LocalExecutionEnvironment.getExecutionCommand: the cases whose command is the
\* interpreter or tool itself
LocalDirectCases ==
  {"javascript", "js", "typescript", "ts", "python", "py", "python2", "bash", "sh", "go"}

\* LocalExecutionEnvironment.getExecutionCommand: the cases whose command is
\* sh -c '<compile> && <run>'
LocalShellCases == {"java", "cpp", "c++", "c", "rust"}

\* LocalExecutionEnvironment.getSupportedLanguages()
LocalSupportedLanguages ==
  {"javascript", "js", "typescript", "ts", "python", "py", "python2", "bash", "sh",
   "java", "cpp", "c++", "c", "go", "rust"}

\* DockerExecutionEnvironment.defaultImages: the keys of the object literal
DockerDefaultImages ==
  {"javascript", "js", "typescript", "ts", "python", "py", "python2",
   "java", "cpp", "c++", "c", "go", "rust"}

\* the lower-case property names that the object literal inherits from Object.prototype
ObjectPrototypeKeys == {"constructor", "__proto__"}

\* this.defaultImages[normalizedLang]: an image name, an inherited property value (a
\* function or an object, which is truthy), or undefined
DefaultImageOf(l) ==
  IF l \in DockerDefaultImages THEN "image"
  ELSE IF l \in ObjectPrototypeKeys THEN "inherited"
  ELSE "undefined"

\* DockerExecutionEnvironment.getExecutionCommand: the cases of the switch
DockerCommandCases ==
  {"javascript", "js", "typescript", "ts", "python", "py", "python2",
   "java", "cpp", "c++", "c", "go", "rust"}

\* DockerExecutionEnvironment.getExecutionCommand(language).filename
DockerFilename(l) ==
  CASE l \in {"javascript", "js"}       -> "main.js"
    [] l \in {"typescript", "ts"}       -> "main.ts"
    [] l \in {"python", "py", "python2"} -> "main.py"
    [] l = "java"                       -> "Main.java"
    [] l \in {"cpp", "c++"}             -> "main.cpp"
    [] l = "c"                          -> "main.c"
    [] l = "go"                         -> "main.go"
    [] l = "rust"                       -> "main.rs"

\* DockerExecutionEnvironment.getSupportedLanguages()
DockerSupportedLanguages ==
  {"javascript", "js", "typescript", "ts", "python", "py", "python2",
   "java", "cpp", "c++", "c", "go", "rust"}

\* isLanguageSupported(language) of the backend
IsLanguageSupported(backend, l) ==
  ToLowerCase(l) \in (IF backend = "local" THEN LocalSupportedLanguages
                                           ELSE DockerSupportedLanguages)

\* getContainerConfig: containerFiles = { [filename]: code, ...files }, the entries of
\* the tar stream
ContainerFiles(l, files) == {DockerFilename(l)} \cup files

\* getContainerConfig: the returned configuration: the command, which runs the main
\* file, the working directory and Volumes: {}; the tar stream is not part of it
GetContainerConfig(l) ==
  [Cmd |-> DockerFilename(l), WorkingDir |-> "/app", Volumes |-> {}]

\* the files in the working directory of a container created from config
FilesInContainer(config) == config.Volumes

NoResult == [kind |-> "none"]

\* the ExecutionResult of the catch blocks: exitCode -1, successful false, error message
ErrorResult(msg) ==
  [kind |-> "result", successful |-> FALSE, exitCode |-> 0 - 1, error |-> msg]

\* the ExecutionResult of the normal return: successful: exitCode === 0, no error
ExitResult(code) ==
  [kind |-> "result", successful |-> (code = 0), exitCode |-> code, error |-> "none"]

\* no byte stream is being read or built
IoIdle == [pc |-> "idle"]

RcIdle ==
  [pc         |-> "idle",     \* position of runCode
   backend    |-> "none",     \* "local" | "docker"
   lang       |-> "none",     \* the language argument
   files      |-> {},         \* options.files
   supported  |-> TRUE,       \* the language has a case in getExecutionCommand / an image
   timeout    |-> 0,          \* timeout after defaulting
   wd         |-> FALSE,      \* options.workingDirectory was supplied
   prog       |-> [forever |-> FALSE, ms |-> 0, exit |-> 0],
   now        |-> 0,          \* wall clock, ms
   started    |-> 0,          \* when the process / container was started
   timer      |-> "none",     \* setTimeout of executeCommand: none | armed | fired | cleared
   deadline   |-> 0,
   child      |-> "none",     \* none | running | exited | signalled | killed | spawn_error | failed
   grandchild |-> "none",     \* a process forked by the sh -c child: none | running | exited
   closeSeen  |-> FALSE,      \* the 'close' handler has run
   isTimedOut |-> FALSE,
   promise    |-> "none",     \* the promise of executeCommand: none | pending | resolved | rejected
   pulled     |-> FALSE,      \* Docker: docker.pull was called
   container  |-> "none",     \* none | created | running | exited | removed
   cfiles     |-> {},         \* Docker: the files in the container's working directory
   removal    |-> "none",     \* Docker: container.remove: none | ok | failed
   err        |-> "none",     \* the error thrown inside runCode's try block, if any
   dir        |-> "none",     \* execDir: none | present | removed
   result     |-> NoResult]

\* ------------------------------------------------------------------ sessions directory data
MaxTime == 2        \* the clock of the sessions directory runs over 0 .. MaxTime

\* the session ids in use
SessionIds == {"s1", "s2"}

\* the .json files of the sessions directory: <id>.json per session id and one more file
FileKeys == SessionIds \cup {"x"}

\* a file whose text is a JSON object that is no session: {}, or what exportSession writes
PlainObject == [kind |-> "object"]

\* the session document: the id and lastUpdateTime of JSON.stringify(session)
SessionDoc(id, t) == [kind |-> "session", id |-> id, lastUpdateTime |-> t]

\* the key under which `this.sessions.set(session.id, session)` files a parsed object:
\* session.id, which is undefined for an object without an id
IdOf(obj) == IF IsSession(obj) THEN obj.id ELSE "undefined"

\* JSON.parse(await fs.readFile(path)) followed by the date conversions: an object, or a
\* throw for a missing file and for text that is not JSON
Readable(content) == content.kind \in {"session", "object"}

\* new Map()
EmptyMap == [k \in {} |-> NoSession]

\* map.set(k, v)
MapSet(m, k, v) == [x \in DOMAIN m \cup {k} |-> IF x = k THEN v ELSE m[x]]

\* Array.from(this.sessions.values())
ListSessions(m) == {m[k] : k \in DOMAIN m}

\* the record of the latest SessionManager / engine call
NoCall ==
  [op |-> "none", outcome |-> "none", writeFailed |-> FALSE, missing |-> FALSE,
   added |-> FALSE, changed |-> FALSE, wrote |-> FALSE, lut |-> 0, at |-> 0, before |-> 0]

\* a SessionManager has been constructed on an empty directory
SmNew ==
  [pc       |-> "new",                        \* new | loading | ready | exec_catch
   files    |-> [f \in FileKeys |-> NoFile],  \* content of <key>.json
   queue    |-> <<>>,                         \* loadExistingSessions: sessionFiles not yet read
   sessions |-> EmptyMap,                     \* this.sessions
   now      |-> 0,                            \* new Date()
   exported |-> NoFile,                       \* the session inside the file exportSession wrote
   cur      |-> "none",                       \* executeBenchmark: session.id
   last     |-> NoCall]

\* ------------------------------------------------------------------ init
SessInit ==
  /\ proc = "up"
  /\ sess = NoSession
  /\ disk = NoFile
  /\ wdoc = NoSession
  /\ pc = "idle"
  /\ cpc = "idle"
  /\ testCases = <<>>
  /\ idx = 0
  /\ callResult = "none"
  /\ runs = 0 /\ kills = 0 /\ ctl = 0
  /\ observed = "none"
  /\ det \in BOOLEAN
  /\ outcome \in [PairIdx -> Outcomes]
  /\ det = FALSE => outcome = [k \in PairIdx |-> "completed"]
  /\ killedAfterFirst = FALSE

\* the components that a specification leaves idle
PlIdle  == [pc |-> "idle"]
CliIdle == [pc |-> "idle"]
MxIdle  == [pc |-> "idle"]
LgIdle  == [pc |-> "idle"]
FnIdle  == [pc |-> "idle"]

Init ==
  /\ SessInit
  /\ rc = RcIdle /\ io = IoIdle /\ sm = SmNew
  /\ pl = PlIdle /\ cli = CliIdle /\ mx = MxIdle
  /\ lg = LgIdle /\ fn = FnIdle


\* ------------------------------------------------------------------ SessionManager
\* saveSession up to the await of fs.writeFile(sessionPath, sessionData): the
\* file is opened with truncation, the document is not yet written
BeginWrite(s) ==
  /\ wdoc' = s
  /\ disk' = Partial

\* fs.writeFile has resolved: the whole document is in the file, and
\* this.sessions.set(session.id, session) has run
EndWrite ==
  /\ disk' = wdoc
  /\ wdoc' = NoSession

NoWriteInFlight == wdoc = NoSession

\* ------------------------------------------------------------------ BenchmarkEngine
\* createSession(pluginName, ...) called on its own: getPlugin(pluginName) gives no
\* plugin and `Plugin ... not found` is thrown, or the session is made and the call is
\* at the await of saveSession
CreateSession ==
  /\ proc = "up" /\ pc = "idle" /\ cpc = "idle"
  /\ sess = NoSession /\ disk = NoFile
  /\ runs < MaxRuns
  /\ \E registered \in BOOLEAN :
       IF registered
         THEN /\ sess' = NewSession
              /\ BeginWrite(NewSession)
              /\ pc' = "cs_save"
              /\ callResult' = "none"
         ELSE /\ callResult' = "plugin_not_found"
              /\ UNCHANGED <<sess, disk, wdoc, pc>>
  /\ UNCHANGED <<sideVars, proc, cpc, testCases, idx, runs, kills, ctl, observed, det, outcome,
                 killedAfterFirst>>

\* createSession: saveSession resolved, the session is returned
CreateSessionDone ==
  /\ proc = "up" /\ pc = "cs_save"
  /\ EndWrite
  /\ pc' = "idle"
  /\ callResult' = "created"
  /\ UNCHANGED <<sideVars, proc, sess, cpc, testCases, idx, runs, kills, ctl, observed, det, outcome,
                 killedAfterFirst>>

\* executeBenchmark(...) without sessionId: createSession, up to the await of saveSession
ExecuteNew ==
  /\ proc = "up" /\ pc = "idle" /\ cpc = "idle"
  /\ sess = NoSession /\ disk = NoFile
  /\ runs < MaxRuns
  /\ runs' = runs + 1
  /\ sess' = NewSession
  /\ BeginWrite(NewSession)
  /\ pc' = "create_save"
  /\ callResult' = "none"
  /\ testCases' = <<>> /\ idx' = 0
  /\ UNCHANGED <<sideVars, proc, cpc, kills, ctl, observed, det, outcome, killedAfterFirst>>

\* executeBenchmark: createSession returned; the plugin is registered; next await is validateDataset
ExecuteCreated ==
  /\ proc = "up" /\ pc = "create_save"
  /\ EndWrite
  /\ pc' = "validate"
  /\ UNCHANGED <<sideVars, proc, sess, cpc, testCases, idx, callResult, runs, kills, ctl, observed,
                 det, outcome, killedAfterFirst>>

\* executeBenchmark(..., sessionId): getSession -> SessionManager.loadSession (cache, then
\* disk); a missing or unparsable file is 'Session not found'
ExecuteResume ==
  /\ proc = "up" /\ pc = "idle" /\ cpc = "idle"
  /\ runs < MaxRuns
  /\ runs' = runs + 1
  /\ testCases' = <<>> /\ idx' = 0
  /\ LET loaded == IF IsSession(sess) THEN sess ELSE ParseFile(disk)
     IN  /\ sess' = loaded
         /\ IF IsSession(loaded)
              THEN pc' = "validate" /\ callResult' = "none"
              ELSE pc' = "idle" /\ callResult' = "not_found"
  /\ UNCHANGED <<sideVars, proc, disk, wdoc, cpc, kills, ctl, observed, det, outcome, killedAfterFirst>>

\* executeBenchmark: plugin.validateDataset(dataset) resolved with valid; then either
\* session.status = 'running' and updateSession, or the catch block
Validate ==
  /\ proc = "up" /\ pc = "validate" /\ NoWriteInFlight
  /\ \E valid \in BOOLEAN :
       IF valid
         THEN /\ sess' = [sess EXCEPT !.status = "running"]
              /\ BeginWrite(sess')
              /\ pc' = "run_save"
              /\ callResult' = "none"
         ELSE /\ sess' = OnPluginError(sess)
              /\ BeginWrite(sess')
              /\ pc' = "fail_save_v"
              /\ callResult' = "none"
  /\ UNCHANGED <<sideVars, proc, cpc, testCases, idx, runs, kills, ctl, observed, det, outcome,
                 killedAfterFirst>>

\* executeBenchmark: updateSession resolved; plugin.execute(context) starts its loops
PluginStart ==
  /\ proc = "up" /\ pc = "run_save"
  /\ EndWrite
  /\ pc' = "plugin"
  /\ testCases' = <<>>
  /\ idx' = 1
  /\ UNCHANGED <<sideVars, proc, sess, cpc, callResult, runs, kills, ctl, observed, det, outcome,
                 killedAfterFirst>>

\* UnifiedDiffPlugin.execute: one iteration of the inner loop (skip, or executeTestCase
\* ending as st, then push and progress update)
PluginStep ==
  /\ proc = "up" /\ pc = "plugin" /\ idx \in PairIdx
  /\ \E st \in Outcomes :
       /\ det => st = outcome[idx]
       /\ LET r == PluginIteration(sess, testCases, idx, st)
          IN  testCases' = r[1] /\ sess' = r[2]
  /\ idx' = idx + 1
  /\ UNCHANGED <<sideVars, proc, disk, wdoc, pc, cpc, callResult, runs, kills, ctl, observed, det,
                 outcome, killedAfterFirst>>

\* plugin.execute rejects (an exception outside the per-test-case try): executeWithErrorHandling
\* rethrows, the catch block of executeBenchmark sets 'failed' and calls updateSession
PluginThrow ==
  /\ proc = "up" /\ pc = "plugin" /\ NoWriteInFlight
  /\ sess' = OnPluginError(sess)
  /\ BeginWrite(sess')
  /\ pc' = "fail_save_p"
  /\ UNCHANGED <<sideVars, proc, cpc, testCases, idx, callResult, runs, kills, ctl, observed, det, outcome,
                 killedAfterFirst>>

\* plugin.execute returned after the last pair: status 'completed', results, updateSession
PluginReturn ==
  /\ proc = "up" /\ pc = "plugin" /\ idx = NumPairs + 1 /\ NoWriteInFlight
  /\ sess' = OnPluginSuccess(sess, testCases)
  /\ BeginWrite(sess')
  /\ pc' = "done_save"
  /\ UNCHANGED <<sideVars, proc, cpc, testCases, idx, callResult, runs, kills, ctl, observed, det,
                 outcome, killedAfterFirst>>

\* executeBenchmark: the last updateSession resolved, the result is returned
ExecuteReturn ==
  /\ proc = "up" /\ pc = "done_save"
  /\ EndWrite
  /\ pc' = "idle"
  /\ callResult' = "returned"
  /\ UNCHANGED <<sideVars, proc, sess, cpc, testCases, idx, runs, kills, ctl, observed, det, outcome,
                 killedAfterFirst>>

\* executeBenchmark: updateSession of the catch block resolved, the error is thrown again
ExecuteRaise ==
  /\ proc = "up" /\ pc \in {"fail_save_v", "fail_save_p"}
  /\ EndWrite
  /\ pc' = "idle"
  /\ callResult' = IF pc = "fail_save_v" THEN "validation_error" ELSE "plugin_error"
  /\ UNCHANGED <<sideVars, proc, sess, cpc, testCases, idx, runs, kills, ctl, observed,
                 det, outcome, killedAfterFirst>>

\* pauseSession(sessionId) / resumeSession(sessionId), up to the await of updateSession:
\* getSession, then session.status = st.  It may be called while executeBenchmark awaits
\* the plugin.  One fs.writeFile of the session file is in flight at a time.
SetStatusCall(st, at) ==
  /\ proc = "up" /\ cpc = "idle" /\ NoWriteInFlight
  /\ pc \in {"idle", "validate", "plugin"}
  /\ ctl < MaxCtl
  /\ ctl' = ctl + 1
  /\ LET loaded == IF IsSession(sess) THEN sess ELSE ParseFile(disk)
     IN  IF IsSession(loaded)
           THEN /\ sess' = [loaded EXCEPT !.status = st]
                /\ BeginWrite(sess')
                /\ cpc' = at
                /\ callResult' = IF pc = "idle" THEN "none" ELSE callResult
           ELSE /\ sess' = loaded
                /\ cpc' = "idle"
                /\ callResult' = IF pc = "idle" THEN "not_found" ELSE callResult
                /\ UNCHANGED <<disk, wdoc>>
  /\ UNCHANGED <<sideVars, proc, pc, testCases, idx, runs, kills, observed, det, outcome,
                 killedAfterFirst>>

PauseSession == SetStatusCall("paused", "pause_save")

ResumeSession == SetStatusCall("running", "resume_save")

\* pauseSession / resumeSession: updateSession resolved
SetStatusDone ==
  /\ proc = "up" /\ cpc \in {"pause_save", "resume_save"}
  /\ EndWrite
  /\ cpc' = "idle"
  /\ UNCHANGED <<sideVars, proc, sess, pc, testCases, idx, callResult, runs, kills, ctl, observed,
                 det, outcome, killedAfterFirst>>

\* ------------------------------------------------------------------ environment
CompletedIn(tcs) == {k \in 1 .. Len(tcs) : tcs[k].status = "completed"}

\* the process is killed: memory is lost, the file stays as it is
Kill ==
  /\ proc = "up"
  /\ kills < MaxKills
  /\ kills' = kills + 1
  /\ proc' = "down"
  /\ sess' = NoSession
  /\ wdoc' = NoSession
  /\ pc' = "idle" /\ cpc' = "idle"
  /\ testCases' = <<>> /\ idx' = 0
  /\ callResult' = "none"
  /\ killedAfterFirst' = (killedAfterFirst \/ (pc = "plugin" /\ idx = 2 /\ CompletedIn(testCases) = {1}))
  /\ UNCHANGED <<sideVars, disk, runs, ctl, observed, det, outcome>>

\* a new process: SessionManager.initialize -> loadExistingSessions (an unparsable file is
\* logged and skipped)
Initialize ==
  /\ proc = "down"
  /\ proc' = "up"
  /\ sess' = ParseFile(disk)
  /\ UNCHANGED <<sideVars, disk, wdoc, pc, cpc, testCases, idx, callResult, runs, kills, ctl,
                 observed, det, outcome, killedAfterFirst>>

\* another process reads the session file (fs.readFile) at any moment
ReaderRead ==
  /\ observed # disk.kind
  /\ observed' = disk.kind
  /\ UNCHANGED <<sideVars, proc, sess, disk, wdoc, pc, cpc, testCases, idx, callResult, runs, kills,
                 ctl, det, outcome, killedAfterFirst>>

Next ==
  \/ CreateSession
  \/ CreateSessionDone
  \/ ExecuteNew
  \/ ExecuteCreated
  \/ ExecuteResume
  \/ Validate
  \/ PluginStart
  \/ PluginStep
  \/ PluginThrow
  \/ PluginReturn
  \/ ExecuteReturn
  \/ ExecuteRaise
  \/ PauseSession
  \/ ResumeSession
  \/ SetStatusDone
  \/ Kill
  \/ Initialize

Spec == Init /\ [][Next]_vars

TypeOK ==
  /\ proc \in {"up", "down"}
  /\ sess.kind \in {"none", "session"}
  /\ disk.kind \in {"absent", "partial", "session"}
  /\ idx \in 0 .. NumPairs + 1
  /\ Len(testCases) <= NumPairs

\* ------------------------------------------------------------------ session store with a reader
\* the writers of the session file outside a benchmark run, and a concurrent reader
NextStore ==
  \/ CreateSession
  \/ CreateSessionDone
  \/ PauseSession
  \/ ResumeSession
  \/ SetStatusDone
  \/ Kill
  \/ Initialize
  \/ ReaderRead

SpecStore == Init /\ [][NextStore]_vars

\* ------------------------------------------------------------------ LocalExecutionEnvironment
\* runCode(code, language, options): options are read, execDir is chosen, fs.mkdir is awaited
RunCodeLocal ==
  /\ rc.pc = "idle"
  /\ \E opt \in TimeoutOpts, w \in BOOLEAN, l \in Languages, f \in FileOpts, p \in Programs :
       rc' = [rc EXCEPT !.pc = "l_setup", !.backend = "local", !.lang = l, !.files = f,
                        !.supported = (ToLowerCase(l) \in LocalDirectCases \cup LocalShellCases),
                        !.timeout = EffectiveTimeout(opt), !.wd = w, !.prog = p]
  /\ UNCHANGED execFrame

\* runCode: mkdir, the files and the code file are written, getExecutionCommand maps the
\* language; a failure goes to the catch block; otherwise executeCommand spawns the
\* process and arms the timer
LocalSetup ==
  /\ rc.pc = "l_setup"
  /\ \E fsOk \in BOOLEAN, spawnOk \in BOOLEAN :
       rc' = IF ~fsOk
               THEN [rc EXCEPT !.pc = "l_cleanup", !.dir = "present",
                               !.err = "infrastructure",
                               !.result = ErrorResult("infrastructure")]
             ELSE IF ~rc.supported
               THEN [rc EXCEPT !.pc = "l_cleanup", !.dir = "present",
                               !.err = "unsupported",
                               !.result = ErrorResult("unsupported")]
             ELSE [rc EXCEPT !.pc = "l_exec", !.dir = "present",
                             !.child = IF spawnOk THEN "running" ELSE "spawn_error",
                             !.started = rc.now,
                             !.timer = "armed", !.deadline = rc.now + rc.timeout,
                             !.promise = "pending"]
  /\ UNCHANGED execFrame

\* the spawned child is sh -c '<compile> && <run>'
ShellCommand == ToLowerCase(rc.lang) \in LocalShellCases

\* the sh -c child forks the process of its command list
ShellFork ==
  /\ rc.child = "running"
  /\ ShellCommand
  /\ rc.grandchild = "none"
  /\ rc' = [rc EXCEPT !.grandchild = "running"]
  /\ UNCHANGED execFrame

\* the spawned process ends by itself (a shell after the process it forked)
ChildExit ==
  /\ rc.child = "running"
  /\ ShellCommand => rc.grandchild = "running"
  /\ ~rc.prog.forever
  /\ rc.now = rc.started + rc.prog.ms
  /\ rc' = [rc EXCEPT !.child = "exited",
                      !.grandchild = IF @ = "running" THEN "exited" ELSE @]
  /\ UNCHANGED execFrame

\* the process a killed shell had forked ends by itself
OrphanExit ==
  /\ rc.child = "killed"
  /\ rc.grandchild = "running"
  /\ ~rc.prog.forever
  /\ rc.now >= rc.started + rc.prog.ms
  /\ rc' = [rc EXCEPT !.grandchild = "exited"]
  /\ UNCHANGED execFrame

\* the spawned process is ended by a signal that is not the timer's SIGKILL (sent by the
\* operating system or by another process)
ChildSignalled ==
  /\ rc.child = "running"
  /\ rc' = [rc EXCEPT !.child = "signalled"]
  /\ UNCHANGED execFrame

\* the code argument of the 'close' event: a number, or null for a process that was
\* ended by a signal
NullCode == [null |-> TRUE, n |-> 0]
Code(n) == [null |-> FALSE, n |-> n]

\* the code of the 'close' event of the child: its exit status when it exited by itself,
\* the negative errno when it could not be spawned, null after a signal
CloseCode(r) ==
  IF r.child = "exited" THEN Code(r.prog.exit)
  ELSE IF r.child = "failed" THEN Code(0 - 2)
  ELSE NullCode

\* code || 0
OrZero(code) == IF code.null \/ code.n = 0 THEN 0 ELSE code.n

\* a handler that leaves the timer armed
ClearTimeoutSkipped(t) == t

\* clearTimeout(timer)
ClearTimeout(t) == IF t = "armed" THEN "cleared" ELSE t

\* resolve of executeCommand, then the return statement of runCode's try block
LocalResolved(r, code) ==
  [r EXCEPT !.promise = "resolved", !.pc = "l_cleanup", !.result = ExitResult(code)]

\* reject of executeCommand without the catch block of runCode: the rejection leaves
\* runCode
LocalRejectedUncaught(r, msg) ==
  [r EXCEPT !.promise = "rejected", !.pc = "rejected", !.err = msg]

\* reject of executeCommand, then the catch block of runCode
LocalRejected(r, msg) ==
  [r EXCEPT !.promise = "rejected", !.pc = "l_cleanup", !.err = msg,
            !.result = ErrorResult(msg)]

\* executeCommand: setTimeout callback: isTimedOut, SIGKILL to the child's pid, reject
LocalTimerFire ==
  /\ rc.timer = "armed"
  /\ rc.now >= rc.deadline
  /\ LET r == [rc EXCEPT !.timer = "fired", !.isTimedOut = TRUE,
                         !.child = IF @ = "running" THEN "killed" ELSE @]
     IN  rc' = IF rc.promise = "pending" THEN LocalRejected(r, "timeout") ELSE r
  /\ UNCHANGED execFrame

\* executeCommand: 'close' handler (it also follows the 'error' of a failed spawn):
\* clearTimeout, resolve unless timed out
LocalClose ==
  /\ rc.child \in {"exited", "killed", "signalled", "failed"}
  /\ ~rc.closeSeen
  /\ LET r == [rc EXCEPT !.closeSeen = TRUE, !.timer = ClearTimeout(@)]
     IN  rc' = IF ~rc.isTimedOut /\ rc.promise = "pending"
                 THEN LocalResolved(r, OrZero(CloseCode(rc)))
                 ELSE r
  /\ UNCHANGED execFrame

\* executeCommand: 'error' handler (the process could not be spawned): clearTimeout,
\* reject unless timed out
LocalError ==
  /\ rc.child = "spawn_error"
  /\ LET r == [rc EXCEPT !.child = "failed", !.timer = ClearTimeout(@)]
     IN  rc' = IF ~rc.isTimedOut /\ rc.promise = "pending"
                 THEN LocalRejected(r, "infrastructure")
                 ELSE r
  /\ UNCHANGED execFrame

\* finally of runCode with the rm not guarded by `if (!workingDirectory)`
CleanupDirAlways(r) == [r EXCEPT !.dir = "removed"]

\* runCode: finally: if (!workingDirectory) fs.rm(execDir, { recursive, force })
CleanupDir(r) == [r EXCEPT !.dir = IF r.wd THEN @ ELSE "removed"]

\* runCode: the finally block has run; the result is returned
LocalCleanup ==
  /\ rc.pc = "l_cleanup"
  /\ rc' = [CleanupDir(rc) EXCEPT !.pc = "returned"]
  /\ UNCHANGED execFrame

\* ------------------------------------------------------------------ DockerExecutionEnvironment
\* runCode: options are read (timeout is only handed to getContainerConfig, which does
\* not use it), getImageForLanguage maps the language or throws; ensureImage is called
RunCodeDocker ==
  /\ rc.pc = "idle"
  /\ \E opt \in TimeoutOpts, l \in Languages, f \in FileOpts, p \in Programs :
       LET r == [rc EXCEPT !.backend = "docker", !.lang = l, !.files = f,
                           !.supported = (DefaultImageOf(ToLowerCase(l)) # "undefined"),
                           !.timeout = EffectiveTimeout(opt), !.prog = p]
       IN  rc' = IF r.supported
                   THEN [r EXCEPT !.pc = "d_image"]
                   ELSE [r EXCEPT !.pc = "returned", !.err = "unsupported",
                                  !.result = ErrorResult("unsupported")]
  /\ UNCHANGED execFrame

\* ensureImage: getImage(image).inspect(); when it fails, docker.pull(image); only an
\* image name can be inspected or pulled with success
DockerEnsureImage ==
  /\ rc.pc = "d_image"
  /\ \E present \in BOOLEAN, pullOk \in BOOLEAN :
       LET real == DefaultImageOf(ToLowerCase(rc.lang)) = "image"
       IN  rc' = IF present /\ real
                   THEN [rc EXCEPT !.pc = "d_config"]
                 ELSE IF pullOk /\ real
                   THEN [rc EXCEPT !.pc = "d_config", !.pulled = TRUE]
                 ELSE [rc EXCEPT !.pc = "returned", !.pulled = TRUE,
                                 !.err = "infrastructure",
                                 !.result = ErrorResult("infrastructure")]
  /\ UNCHANGED execFrame

\* runCode: getContainerConfig (getExecutionCommand maps the language or throws);
\* docker.createContainer settled; container.start is called
DockerCreate ==
  /\ rc.pc = "d_config"
  /\ \E ok \in BOOLEAN :
       rc' = IF ToLowerCase(rc.lang) \notin DockerCommandCases
               THEN [rc EXCEPT !.pc = "returned", !.err = "unsupported",
                               !.result = ErrorResult("unsupported")]
             ELSE IF ok
               THEN [rc EXCEPT !.pc = "d_start", !.container = "created",
                       !.cfiles = FilesInContainer(GetContainerConfig(ToLowerCase(rc.lang)))]
             ELSE [rc EXCEPT !.pc = "returned", !.err = "infrastructure",
                             !.result = ErrorResult("infrastructure")]
  /\ UNCHANGED execFrame

\* a statement of the inner try threw, were there no finally block: the error goes
\* straight to the catch block
InnerTryThrewNoFinally(r, e) ==
  [r EXCEPT !.pc = "returned", !.err = e, !.result = ErrorResult(e)]

\* a statement of the inner try threw: the finally block runs next
InnerTryThrew(r, e) == [r EXCEPT !.pc = "d_remove", !.err = e]

\* runCode: container.start settled; container.logs({follow: true}) is read by
\* parseContainerLogs until the stream ends
DockerStart ==
  /\ rc.pc = "d_start"
  /\ \E ok \in BOOLEAN :
       rc' = IF ok
               THEN [rc EXCEPT !.pc = "d_logs", !.container = "running", !.started = rc.now]
               ELSE InnerTryThrew(rc, "infrastructure")
  /\ UNCHANGED execFrame

\* the container's command ends by itself
ContainerExit ==
  /\ rc.container = "running"
  /\ ~rc.prog.forever
  /\ rc.now = rc.started + rc.prog.ms
  /\ rc' = [rc EXCEPT !.container = "exited"]
  /\ UNCHANGED execFrame

\* parseContainerLogs: the followed log stream ended (the container has exited), or it
\* emitted 'error'; container.wait is called next
DockerLogsEnd ==
  /\ rc.pc = "d_logs"
  /\ \E ok \in BOOLEAN :
       IF ok
         THEN /\ rc.container = "exited"
              /\ rc' = [rc EXCEPT !.pc = "d_wait"]
         ELSE rc' = InnerTryThrew(rc, "infrastructure")
  /\ UNCHANGED execFrame

\* runCode: container.wait settled: exitCode = result.StatusCode, or it threw
DockerWait ==
  /\ rc.pc = "d_wait"
  /\ rc.container = "exited"
  /\ \E ok \in BOOLEAN :
       rc' = IF ok THEN [rc EXCEPT !.pc = "d_remove"]
                   ELSE InnerTryThrew(rc, "infrastructure")
  /\ UNCHANGED execFrame

\* runCode: finally: container.remove({force: true}), its failure ignored; then the
\* result of the run, or the catch block's result
DockerRemove ==
  /\ rc.pc = "d_remove"
  /\ \E ok \in BOOLEAN :
       rc' = [rc EXCEPT !.pc = "returned",
                        !.container = IF ok THEN "removed" ELSE @,
                        !.removal = IF ok THEN "ok" ELSE "failed",
                        !.result = IF rc.err = "none"
                                     THEN ExitResult(rc.prog.exit)
                                     ELSE ErrorResult(rc.err)]
  /\ UNCHANGED execFrame

\* ------------------------------------------------------------------ clock
\* a process or container of the call is executing
Executing == rc.child = "running" \/ rc.container = "running"

\* time passes while a call is in flight, up to the next timer expiry or process exit
Advance ==
  /\ rc.pc \notin {"idle", "returned"}
  /\ \E t \in Instants :
       /\ t > rc.now
       /\ rc.timer = "armed" => t <= rc.deadline
       /\ (Executing /\ ~rc.prog.forever) => t <= rc.started + rc.prog.ms
       /\ rc' = [rc EXCEPT !.now = t]
  /\ UNCHANGED execFrame

NextExec ==
  \/ RunCodeLocal
  \/ LocalSetup
  \/ ShellFork
  \/ ChildExit
  \/ ChildSignalled
  \/ OrphanExit
  \/ LocalTimerFire
  \/ LocalClose
  \/ LocalError
  \/ LocalCleanup
  \/ RunCodeDocker
  \/ DockerEnsureImage
  \/ DockerCreate
  \/ DockerStart
  \/ ContainerExit
  \/ DockerLogsEnd
  \/ DockerWait
  \/ DockerRemove
  \/ Advance

\* no runCode call yet; the session side at rest
InitExec ==
  /\ SessInit
  /\ det = FALSE
  /\ rc = RcIdle
  /\ io = IoIdle
  /\ sm = SmNew
  /\ pl = PlIdle /\ cli = CliIdle /\ mx = MxIdle
  /\ lg = LgIdle /\ fn = FnIdle

SpecExec == InitExec /\ [][NextExec]_vars

\* ------------------------------------------------------------------ bytes and strings
\* a Buffer is a sequence of bytes (0 .. 255); a string is a sequence of code points
\* below 0x800, each one UTF-16 unit, so that string.length is Len

\* all sequences over S of length at most n
SeqsUpTo(S, n) == UNION {[1 .. k -> S] : k \in 0 .. n}

\* Buffer.alloc(n, b), 'c'.repeat(n)
Repeat(b, n) == [i \in 1 .. n |-> b]

\* U+FFFD, what the decoder puts for a byte that is not part of a well-formed sequence
ReplacementChar == 65533

\* buffer.toString('utf8'), for one- and two-byte sequences: a lead byte without its
\* continuation byte, or a continuation byte alone, decodes to U+FFFD
RECURSIVE Utf8Decode(_)
Utf8Decode(b) ==
  IF b = <<>> THEN <<>>
  ELSE IF b[1] < 128 THEN <<b[1]>> \o Utf8Decode(Tail(b))
  ELSE IF b[1] \in 194 .. 223 /\ Len(b) >= 2 /\ b[2] \in 128 .. 191
    THEN <<(b[1] - 192) * 64 + (b[2] - 128)>> \o Utf8Decode(Tail(Tail(b)))
  ELSE <<ReplacementChar>> \o Utf8Decode(Tail(b))

\* the UTF-8 bytes of one code point below 0x800
Utf8Char(c) == IF c < 128 THEN <<c>> ELSE <<192 + (c \div 64), 128 + (c % 64)>>

\* the UTF-8 bytes of the characters s[lo] .. s[hi]
RECURSIVE EncodeRange(_, _, _)
EncodeRange(s, lo, hi) ==
  IF lo > hi THEN <<>>
  ELSE IF lo = hi THEN Utf8Char(s[lo])
  ELSE LET mid == (lo + hi) \div 2
       IN  EncodeRange(s, lo, mid) \o EncodeRange(s, mid + 1, hi)

\* Buffer.from(string, 'utf-8')
Utf8Encode(s) == EncodeRange(s, 1, Len(s))

\* the number of UTF-8 bytes of the first k characters of s
ByteLength(s, k) == k + Cardinality({i \in 1 .. k : s[i] >= 128})

\* the bytes buf.write(string, offset, length) writes: the encoding of the longest
\* prefix of whole characters that fits into length bytes
EncodePrefix(s, n) ==
  LET fit == {k \in 0 .. Len(s) : ByteLength(s, k) <= n}
  IN  EncodeRange(s, 1, CHOOSE k \in fit : \A j \in fit : j <= k)

\* buf.write(string, offset, length) on buffer h (offset 0-based)
Write(h, s, offset, length) ==
  LET bytes == EncodePrefix(s, length)
  IN  SubSeq(h, 1, offset) \o bytes \o SubSeq(h, offset + Len(bytes) + 1, Len(h))

\* n.toString(8), as a string of the characters '0' .. '7'
RECURSIVE ToOctal(_)
ToOctal(n) == IF n < 8 THEN <<48 + n>> ELSE ToOctal(n \div 8) \o <<48 + (n % 8)>>

\* string.padStart(k, '0')
PadStart(s, k) == IF Len(s) >= k THEN s ELSE Repeat(48, k - Len(s)) \o s

\* the number a string of octal digits denotes
RECURSIVE OctalValue(_)
OctalValue(s) ==
  IF s = <<>> THEN 0 ELSE OctalValue(SubSeq(s, 1, Len(s) - 1)) * 8 + (s[Len(s)] - 48)

\* b[lo] + ... + b[hi]
RECURSIVE SumRange(_, _, _)
SumRange(b, lo, hi) ==
  IF lo > hi THEN 0
  ELSE IF lo = hi THEN b[lo]
  ELSE LET mid == (lo + hi) \div 2
       IN  SumRange(b, lo, mid) + SumRange(b, mid + 1, hi)

\* for (let i = 0; i < 512; i++) checksum += header[i]: the sum of all bytes of b
SumBytes(b) == SumRange(b, 1, Len(b))

\* ------------------------------------------------------------------ parseContainerLogs
MaxFrames == 2      \* frames in the multiplexed stream
MaxChunks == 3      \* 'data' events the stream is cut into

\* frame payloads: empty, "h", the two bytes of U+00E9 together and one at a time
PayloadOpts == {<<>>, <<104>>, <<195, 169>>, <<195>>, <<169>>}

\* a frame written by the Docker daemon: stream selector and payload
FrameOpts == [sel : {1, 2}, payload : PayloadOpts]

\* the frame on the wire: selector, three zero bytes, big-endian length, payload
FrameBytes(f) ==
  LET n == Len(f.payload)
  IN  <<f.sel, 0, 0, 0,
        (n \div 16777216) % 256, (n \div 65536) % 256, (n \div 256) % 256, n % 256>>
        \o f.payload

\* the multiplexed stream of a sequence of frames
RECURSIVE Mux(_)
Mux(fs) == IF fs = <<>> THEN <<>> ELSE FrameBytes(Head(fs)) \o Mux(Tail(fs))

\* Buffer.concat(chunks)
RECURSIVE Concat(_)
Concat(chunks) == IF chunks = <<>> THEN <<>> ELSE Head(chunks) \o Concat(Tail(chunks))

\* the length field read with the least significant byte first
ReadUInt32LE(b, offset) ==
  b[offset + 1] + b[offset + 2] * 256 + b[offset + 3] * 65536 + b[offset + 4] * 16777216

\* buffer.readUInt32BE(offset), offset 0-based
ReadUInt32BE(b, offset) ==
  b[offset + 1] * 16777216 + b[offset + 2] * 65536 + b[offset + 3] * 256 + b[offset + 4]

\* the while loop of the 'end' handler from offset on; out = <<stdout, stderr>>
RECURSIVE ParseFrames(_, _, _)
ParseFrames(buffer, offset, out) ==
  IF ~(offset < Len(buffer)) THEN out
  ELSE IF Len(buffer) - offset < 8 THEN out
  ELSE LET streamType == buffer[offset + 1]
           size       == ReadUInt32BE(buffer, offset + 4)
       IN  IF Len(buffer) - offset < 8 + size THEN out
           ELSE LET data == Utf8Decode(SubSeq(buffer, offset + 9, offset + 8 + size))
                IN  ParseFrames(buffer, offset + 8 + size,
                                IF streamType = 1 THEN <<out[1] \o data, out[2]>>
                                ELSE IF streamType = 2 THEN <<out[1], out[2] \o data>>
                                ELSE out)

\* parseContainerLogs(stream) has registered its handlers on the log stream of frames fs
LogsStart(fs) ==
  [pc |-> "reading", frames |-> fs, rest |-> Mux(fs), chunks |-> <<>>,
   stdout |-> <<>>, stderr |-> <<>>]

\* stream.on('data'): chunks.push(chunk); the chunk is any non-empty prefix of what
\* the stream still holds
StreamData ==
  /\ io.pc = "reading"
  /\ Len(io.chunks) < MaxChunks
  /\ \E n \in 1 .. Len(io.rest) :
       /\ Len(io.chunks) = MaxChunks - 1 => n = Len(io.rest)
       /\ io' = [io EXCEPT !.chunks = Append(@, SubSeq(io.rest, 1, n)),
                           !.rest = SubSeq(@, n + 1, Len(@))]
  /\ UNCHANGED ioFrame

\* stream.on('end'): the chunks are concatenated and parsed; resolve({ stdout, stderr })
StreamEnd ==
  /\ io.pc = "reading"
  /\ io.rest = <<>>
  /\ LET out == ParseFrames(Concat(io.chunks), 0, <<<<>>, <<>>>>)
     IN  io' = [io EXCEPT !.pc = "resolved", !.stdout = out[1], !.stderr = out[2]]
  /\ UNCHANGED ioFrame

\* stream.on('error', reject)
StreamError ==
  /\ io.pc = "reading"
  /\ io' = [io EXCEPT !.pc = "rejected"]
  /\ UNCHANGED ioFrame

NextLogs ==
  \/ StreamData
  \/ StreamEnd
  \/ StreamError

\* parseContainerLogs was called on the log stream of some sequence of frames
InitLogs ==
  /\ SessInit
  /\ det = FALSE
  /\ rc = RcIdle
  /\ sm = SmNew
  /\ pl = PlIdle /\ cli = CliIdle /\ mx = MxIdle
  /\ lg = LgIdle /\ fn = FnIdle
  /\ \E fs \in SeqsUpTo(FrameOpts, MaxFrames) : io = LogsStart(fs)

SpecLogs == InitLogs /\ [][NextLogs]_vars

\* frames of a stream that may end early: stdout, stderr and a selector that is neither
CutFrameOpts ==
  {[sel |-> 1, payload |-> <<104>>], [sel |-> 2, payload |-> <<104, 105>>],
   [sel |-> 3, payload |-> <<104>>]}

\* the log stream of frames fs ends after its first n bytes
LogsStartCut(fs, n) == [LogsStart(fs) EXCEPT !.rest = SubSeq(@, 1, n)]

\* parseContainerLogs was called on a log stream that ends at some byte of some
\* sequence of frames
InitLogsCut ==
  /\ SessInit
  /\ det = FALSE
  /\ rc = RcIdle
  /\ sm = SmNew
  /\ pl = PlIdle /\ cli = CliIdle /\ mx = MxIdle
  /\ lg = LgIdle /\ fn = FnIdle
  /\ \E fs \in SeqsUpTo(CutFrameOpts, MaxFrames) :
       \E n \in 0 .. Len(Mux(fs)) : io = LogsStartCut(fs, n)

SpecLogsCut == InitLogsCut /\ [][NextLogs]_vars

\* ------------------------------------------------------------------ createTarStream, createTarHeader
MaxFiles == 2       \* entries of containerFiles

\* the longest Buffer.from(content, 'utf-8') of a string: 3 bytes for each of the
\* 2^29 - 24 UTF-16 units a string can hold
MaxStringBytes == 1610612664

\* file names: "main.js", "é.py" (4 characters, 5 bytes), 101 characters
NameOpts ==
  {<<109, 97, 105, 110, 46, 106, 115>>, <<233, 46, 112, 121>>, Repeat(97, 101)}

\* file contents: empty, one byte, one block
DataOpts == {<<>>, <<120>>, Repeat(120, 512)}

\* { name: path, data: Buffer.from(content, 'utf-8') }
TarFileOpts == [name : NameOpts, data : DataOpts]

\* the size arguments createTarHeader is applied to
SizeOpts == {0, 1, 512, MaxStringBytes}

\* Math.floor(Date.now() / 1000): 1970-01-01 and 2025-11-05
MTimeOpts == {0, 1762300800}

\* the checksum field left as Buffer.alloc's zero bytes
ChecksumPlaceholderZeros == Repeat(0, 8)

\* header.write('        ', 148, 8): the checksum placeholder
ChecksumPlaceholder == Repeat(32, 8)

\* createTarHeader(filename, size) at time mtime
CreateTarHeader(filename, size, mtime) ==
  LET h0 == Repeat(0, 512)
      MinLen == IF Len(filename) < 100 THEN Len(filename) ELSE 100
      h1 == Write(h0, filename, 0, MinLen)
      h2 == Write(h1, <<48, 48, 48, 48, 54, 52, 52, 32>>, 100, 8)
      h3 == Write(h2, <<48, 48, 48, 48, 48, 48, 48, 32>>, 108, 8)
      h4 == Write(h3, <<48, 48, 48, 48, 48, 48, 48, 32>>, 116, 8)
      h5 == Write(h4, PadStart(ToOctal(size), 11) \o <<32>>, 124, 12)
      h6 == Write(h5, PadStart(ToOctal(mtime), 11) \o <<32>>, 136, 12)
      h7 == Write(h6, ChecksumPlaceholder, 148, 8)
      h8 == Write(h7, <<48>>, 156, 1)
      checksum == SumBytes(h8)
  IN  Write(h8, PadStart(ToOctal(checksum), 6) \o <<0, 32>>, 148, 8)

\* the properties and methods `this` has inside read() of new Readable({ read() {...} }):
\* those of the Readable stream, not those of the DockerExecutionEnvironment
ReadableMembers == {"push", "read", "destroy", "pipe", "on"}

\* the zero padding after file data of length n
Padding(n) ==
  LET padding == 512 - (n % 512)
  IN  IF padding # 512 THEN Repeat(0, padding) ELSE <<>>

\* createTarStream(files) has returned the Readable; nothing is read yet
TarStart(files, mtime) ==
  [pc |-> "readable", files |-> files, mtime |-> mtime, fileIndex |-> 0,
   pushed |-> <<>>, header |-> <<>>, name |-> <<>>, size |-> 0]

\* one read() call of the stream: end of stream after the last file; otherwise
\* this.createTarHeader(...) is called, which throws a TypeError when `this` has no such
\* method; otherwise header, data and padding are pushed
TarRead ==
  /\ io.pc = "readable"
  /\ IF io.fileIndex >= Len(io.files)
       THEN io' = [io EXCEPT !.pc = "ended"]
       ELSE LET file == io.files[io.fileIndex + 1]
            IN  IF "createTarHeader" \notin ReadableMembers
                  THEN io' = [io EXCEPT !.fileIndex = @ + 1, !.pc = "errored"]
                  ELSE io' = [io EXCEPT
                         !.fileIndex = @ + 1,
                         !.pushed = @ \o CreateTarHeader(file.name, Len(file.data), io.mtime)
                                      \o file.data \o Padding(Len(file.data))]
  /\ UNCHANGED ioFrame

\* createTarHeader applied, as a method of the environment, to a file name and a size
CreateTarHeaderCall ==
  /\ io.pc = "readable"
  /\ \E i \in 1 .. Len(io.files), size \in SizeOpts :
       io' = [io EXCEPT !.pc = "header",
                        !.header = CreateTarHeader(io.files[i].name, size, io.mtime),
                        !.name = io.files[i].name, !.size = size]
  /\ UNCHANGED ioFrame

NextTar ==
  \/ TarRead
  \/ CreateTarHeaderCall

\* createTarStream was called on some list of files at some time
InitTar ==
  /\ SessInit
  /\ det = FALSE
  /\ rc = RcIdle
  /\ sm = SmNew
  /\ pl = PlIdle /\ cli = CliIdle /\ mx = MxIdle
  /\ lg = LgIdle /\ fn = FnIdle
  /\ \E files \in SeqsUpTo(TarFileOpts, MaxFiles), mtime \in MTimeOpts :
       io = TarStart(files, mtime)

SpecTar == InitTar /\ [][NextTar]_vars

\* ------------------------------------------------------------------ SessionManager over a directory
\* all orders in which readdir can list the files S
Orders(S) ==
  {q \in [1 .. Cardinality(S) -> S] : \A i, j \in 1 .. Cardinality(S) : q[i] = q[j] => i = j}

\* initialize(): mkdir, then loadExistingSessions up to the loop: readdir, the .json files
SmInitialize ==
  /\ sm.pc = "new"
  /\ \E q \in Orders({f \in FileKeys : sm.files[f] # NoFile}) :
       sm' = [sm EXCEPT !.pc = "loading", !.queue = q, !.last = NoCall]
  /\ UNCHANGED smFrame

\* loadExistingSessions: one iteration of the loop: readFile, JSON.parse, date
\* conversions, this.sessions.set(session.id, session); a throw is logged and skipped
SmLoadFile ==
  /\ sm.pc = "loading"
  /\ sm.queue # <<>>
  /\ LET content == sm.files[Head(sm.queue)]
     IN  sm' = [sm EXCEPT !.queue = Tail(@),
                          !.sessions = IF Readable(content)
                                         THEN MapSet(@, IdOf(content), content)
                                         ELSE @]
  /\ UNCHANGED smFrame

\* loadExistingSessions and initialize return
SmInitialized ==
  /\ sm.pc = "loading"
  /\ sm.queue = <<>>
  /\ sm' = [sm EXCEPT !.pc = "ready", !.last = [NoCall EXCEPT !.op = "initialize",
                                                               !.outcome = "resolved"]]
  /\ UNCHANGED smFrame

\* the process ends; a new one constructs a SessionManager on the same directory
SmRestart ==
  /\ sm.pc # "new"
  /\ sm' = [sm EXCEPT !.pc = "new", !.queue = <<>>, !.sessions = EmptyMap,
                      !.cur = "none", !.last = NoCall]
  /\ UNCHANGED smFrame

\* a file that no saveSession wrote is put into the directory
SmOtherFile ==
  /\ sm.files["x"] = NoFile
  /\ \E c \in {Partial, PlainObject} :
       sm' = [sm EXCEPT !.files["x"] = c]
  /\ UNCHANGED smFrame

\* time passes
SmTick ==
  /\ sm.now < MaxTime
  /\ sm' = [sm EXCEPT !.now = @ + 1]
  /\ UNCHANGED smFrame

\* the lastUpdateTime in file f, -1 when it holds no session
FileTime(m, f) == IF IsSession(m.files[f]) THEN m.files[f].lastUpdateTime ELSE 0 - 1

\* the state after a saveSession call of operation op that left the map as sessions:
\* the file, the map and the record of the call
Saved(m, op, session, ok, cut, sessions) ==
  [m EXCEPT !.files[session.id] = IF ok THEN session ELSE IF cut THEN Partial ELSE @,
            !.sessions = sessions,
            !.last = [NoCall EXCEPT
                        !.op = op,
                        !.outcome = IF ok THEN "resolved" ELSE "rejected",
                        !.writeFailed = ~ok,
                        !.added = (DOMAIN sessions # DOMAIN m.sessions),
                        !.wrote = ok,
                        !.lut = IF ok THEN session.lastUpdateTime ELSE 0,
                        !.at = IF ok THEN m.now ELSE 0,
                        !.before = IF ok THEN FileTime(m, session.id) ELSE 0]]

\* saveSession with this.sessions.set(...) ahead of the write
SaveSessionSetFirst(m, op, session, ok, cut) ==
  Saved(m, op, session, ok, cut, MapSet(m.sessions, session.id, session))

\* saveSession(session) called by operation op on state m: fs.writeFile succeeds and the
\* session is put into the map, or it fails (leaving the file as it was, or cut short)
\* and the error is thrown
SaveSession(m, op, session, ok, cut) ==
  Saved(m, op, session, ok, cut,
        IF ok THEN MapSet(m.sessions, session.id, session) ELSE m.sessions)

\* session.lastUpdateTime = new Date() on the session object, which is also the map's
\* entry when the map holds that session
Touch(m, id) ==
  IF id \in DOMAIN m.sessions
    THEN [m EXCEPT !.sessions[id].lastUpdateTime = m.now]
    ELSE m

\* BenchmarkEngine.createSession: a session with a new id and lastUpdateTime: new Date()
\* is saved
SmEngineCreate ==
  /\ sm.pc = "ready"
  /\ \E id \in SessionIds, ok \in BOOLEAN, cut \in BOOLEAN :
       /\ sm.files[id] = NoFile /\ id \notin DOMAIN sm.sessions
       /\ sm' = SaveSession(sm, "createSession", SessionDoc(id, sm.now), ok, cut)
  /\ UNCHANGED smFrame

\* BenchmarkEngine.updateSession / SessionManager.updateSession on a session of the map:
\* lastUpdateTime = new Date(), then saveSession
SmUpdate ==
  /\ sm.pc = "ready"
  /\ \E id \in SessionIds \cap DOMAIN sm.sessions, ok \in BOOLEAN, cut \in BOOLEAN :
       sm' = SaveSession(Touch(sm, id), "updateSession", SessionDoc(id, sm.now), ok, cut)
  /\ UNCHANGED smFrame

\* SessionManager.createSession(sessionData): { ...sessionData, lastUpdateTime: new Date() }
\* is saved
SmCreate ==
  /\ sm.pc = "ready"
  /\ \E id \in SessionIds, ok \in BOOLEAN, cut \in BOOLEAN :
       sm' = SaveSession(sm, "SessionManager.createSession", SessionDoc(id, sm.now), ok, cut)
  /\ UNCHANGED smFrame

\* SessionManager.saveSession(session) on a session of the map, as it is
SmSave ==
  /\ sm.pc = "ready"
  /\ \E id \in SessionIds \cap DOMAIN sm.sessions, ok \in BOOLEAN, cut \in BOOLEAN :
       sm' = SaveSession(sm, "saveSession", sm.sessions[id], ok, cut)
  /\ UNCHANGED smFrame

\* loadSession(sessionId): the map's entry; else the parsed file, which is put into the
\* map; else null
SmLoadSession ==
  /\ sm.pc = "ready"
  /\ \E id \in SessionIds :
       LET content == sm.files[id]
           hit     == id \in DOMAIN sm.sessions
           m       == IF ~hit /\ Readable(content)
                        THEN MapSet(sm.sessions, IdOf(content), content)
                        ELSE sm.sessions
       IN  sm' = [sm EXCEPT
                    !.sessions = m,
                    !.last = [NoCall EXCEPT
                                !.op = "loadSession",
                                !.outcome = IF hit \/ Readable(content) THEN "resolved"
                                                                        ELSE "null",
                                !.missing = (~hit /\ content = NoFile),
                                !.changed = (m # sm.sessions)]]
  /\ UNCHANGED smFrame

\* exportSession(sessionId, outputPath): the loaded session goes into the export file
SmExport ==
  /\ sm.pc = "ready"
  /\ \E id \in SessionIds \cap DOMAIN sm.sessions :
       sm' = [sm EXCEPT !.exported = sm.sessions[id],
                        !.last = [NoCall EXCEPT !.op = "exportSession",
                                                !.outcome = "resolved"]]
  /\ UNCHANGED smFrame

\* importSession(inputPath): importData.session with its dates converted is saved
SmImport ==
  /\ sm.pc = "ready"
  /\ IsSession(sm.exported)
  /\ \E ok \in BOOLEAN, cut \in BOOLEAN :
       sm' = SaveSession(sm, "importSession", sm.exported, ok, cut)
  /\ UNCHANGED smFrame

\* executeBenchmark on a session of the map: session.status = 'running' and updateSession
\* (or, after the plugin, 'completed' and updateSession); a failed write goes to the
\* catch block
SmExecuteUpdate ==
  /\ sm.pc = "ready"
  /\ \E id \in SessionIds \cap DOMAIN sm.sessions, ok \in BOOLEAN, cut \in BOOLEAN :
       LET m == SaveSession(Touch(sm, id), "executeBenchmark", SessionDoc(id, sm.now), ok, cut)
       IN  sm' = IF ok THEN m
                       ELSE [m EXCEPT !.pc = "exec_catch", !.cur = id, !.last.outcome = "none"]
  /\ UNCHANGED smFrame

\* executeBenchmark: catch block: session.status = 'failed', updateSession, which throws
\* when its write fails too; else throw error
SmExecuteCatch ==
  /\ sm.pc = "exec_catch"
  /\ \E ok \in BOOLEAN, cut \in BOOLEAN :
       LET m == SaveSession(Touch(sm, sm.cur), "executeBenchmark",
                            SessionDoc(sm.cur, sm.now), ok, cut)
       IN  sm' = [m EXCEPT !.pc = "ready", !.cur = "none",
                           !.last.outcome = "rejected", !.last.writeFailed = TRUE]
  /\ UNCHANGED smFrame

NextSm ==
  \/ SmInitialize
  \/ SmLoadFile
  \/ SmInitialized
  \/ SmRestart
  \/ SmOtherFile
  \/ SmTick
  \/ SmEngineCreate
  \/ SmUpdate
  \/ SmCreate
  \/ SmSave
  \/ SmLoadSession
  \/ SmExport
  \/ SmImport
  \/ SmExecuteUpdate
  \/ SmExecuteCatch

\* a SessionManager constructed on an empty directory; the rest of the model at rest
InitSm ==
  /\ SessInit
  /\ det = FALSE
  /\ rc = RcIdle
  /\ io = IoIdle
  /\ sm = SmNew
  /\ pl = PlIdle /\ cli = CliIdle /\ mx = MxIdle
  /\ lg = LgIdle /\ fn = FnIdle

SpecSm == InitSm /\ [][NextSm]_vars

\* ------------------------------------------------------------------ UnifiedDiffPlugin retries
\* propertiesSchema.maxRetries.default
MaxRetriesDefault == 3

\* context.properties.maxRetries: absent, or a positive number
MaxRetriesOpts ==
  {[set |-> FALSE, n |-> 0], [set |-> TRUE, n |-> 1], [set |-> TRUE, n |-> 2],
   [set |-> TRUE, n |-> 4]}

\* properties.maxRetries || this.propertiesSchema.maxRetries.default
EffectiveMaxRetries(p) == IF p.set /\ p.n # 0 THEN p.n ELSE MaxRetriesDefault

\* how one pass through the try block of executeTestCase can go: streamChat or the
\* stream throws; the content is no unified diff; the diff is validated; a check of
\* validateAndApplyDiff throws
AttemptOutcomes == {"model_error", "invalid_format", "validated", "validation_threw"}

\* const result: TestCaseResult = { testCaseId, modelId, status: 'running', startTime };
\* calls and failures count the attempts of the pair
RunningResult(k) ==
  [testCaseId |-> CompositeId(k), status |-> "running", error |-> "none",
   calls |-> 0, failures |-> 0]

\* the retry loop with `attempt <= maxRetries`
AttemptAllowedInclusive(attempt, maxRetries) == attempt <= maxRetries

\* while (attempt < maxRetries)
AttemptAllowed(attempt, maxRetries) == attempt < maxRetries

\* execute(context) on a session without results: the properties are read
PlExecute ==
  /\ pl.pc = "idle"
  /\ \E p \in MaxRetriesOpts :
       pl' = [pc |-> "loop", properties |-> p, maxRetries |-> EffectiveMaxRetries(p),
              k |-> 1, testCases |-> <<>>, result |-> RunningResult(1),
              attempt |-> 0, delay |-> 0, delays |-> <<>>]
  /\ UNCHANGED plFrame

\* the inner loop reaches pair k: the result object is made and executeTestCase starts
PlDispatch ==
  /\ pl.pc = "loop" /\ pl.k \in PairIdx
  /\ pl' = [pl EXCEPT !.result = RunningResult(pl.k), !.attempt = 0, !.delay = 0,
                      !.delays = <<>>,
                      !.pc = IF AttemptAllowed(0, pl.maxRetries) THEN "attempt" ELSE "thrown"]
  /\ UNCHANGED plFrame

\* executeTestCase: one pass through the body of the while loop: the model call, the
\* collected content, validateAndApplyDiff; or the catch block up to its backoff
PlAttempt ==
  /\ pl.pc = "attempt"
  /\ \E o \in AttemptOutcomes :
       LET called == [pl EXCEPT !.result.calls = @ + 1]
       IN  pl' = CASE o = "validated" ->
                        [called EXCEPT !.pc = "returned"]
                   [] o = "invalid_format" ->
                        [called EXCEPT !.pc = "returned", !.result.error = "validation"]
                   [] OTHER ->
                        [called EXCEPT
                           !.result.failures = @ + 1,
                           !.attempt = @ + 1,
                           !.delay = IF AttemptAllowed(pl.attempt + 1, pl.maxRetries)
                                       THEN 1000 * (pl.attempt + 1) ELSE 0,
                           !.delays = IF AttemptAllowed(pl.attempt + 1, pl.maxRetries)
                                        THEN Append(@, 1000 * (pl.attempt + 1)) ELSE @,
                           !.pc = IF AttemptAllowed(pl.attempt + 1, pl.maxRetries)
                                    THEN "backoff" ELSE "thrown"]
  /\ UNCHANGED plFrame

\* the backoff timer of the catch block fires and the loop condition is read again
PlBackoff ==
  /\ pl.pc = "backoff"
  /\ pl' = [pl EXCEPT !.pc = "attempt", !.delay = 0]
  /\ UNCHANGED plFrame

\* execute: executeTestCase returned: status 'completed', push, next pair
PlCompleted ==
  /\ pl.pc = "returned"
  /\ pl' = [pl EXCEPT !.testCases = Append(@, [pl.result EXCEPT !.status = "completed"]),
                      !.k = @ + 1, !.pc = "loop"]
  /\ UNCHANGED plFrame

\* execute: executeTestCase threw lastError: status 'failed' and error of type
\* 'execution', push, next pair
PlFailed ==
  /\ pl.pc = "thrown"
  /\ pl' = [pl EXCEPT !.testCases = Append(@, [pl.result EXCEPT !.status = "failed",
                                                                !.error = "execution"]),
                      !.k = @ + 1, !.pc = "loop"]
  /\ UNCHANGED plFrame

\* execute: the loops are over, the BenchmarkResult with testCases is returned
PlReturn ==
  /\ pl.pc = "loop" /\ pl.k = NumPairs + 1
  /\ pl' = [pl EXCEPT !.pc = "done"]
  /\ UNCHANGED plFrame

NextPlugin ==
  \/ PlExecute
  \/ PlDispatch
  \/ PlAttempt
  \/ PlBackoff
  \/ PlCompleted
  \/ PlFailed
  \/ PlReturn

\* a plugin that has not been called; the rest of the model at rest
InitPlugin ==
  /\ SessInit
  /\ det = FALSE
  /\ rc = RcIdle /\ io = IoIdle /\ sm = SmNew
  /\ pl = PlIdle /\ cli = CliIdle /\ mx = MxIdle
  /\ lg = LgIdle /\ fn = FnIdle

SpecPlugin == InitPlugin /\ [][NextPlugin]_vars

\* ------------------------------------------------------------------ command line: runBenchmark
\* the plugins that runBenchmark registers
RegisteredPlugins == {"unified-diff-testing"}

\* options.plugin: not given, the registered plugin, another name
PluginOpts == {"", "unified-diff-testing", "other"}

\* options.continue: not given, the id of a stored session, an id without a session
ContinueOpts == {"", "stored", "missing"}

\* options.executionEnv, or session.config.executionEnvironment of the stored session
EnvTypeOpts == {"local", "docker", "unknown"}

\* runBenchmark(options) is called: the options, and how the things it calls will answer
CliStart(plugin, continue, envType, dryRun, modelsLoad, datasetLoads, envValid, runs_ok) ==
  [pc |-> "start", plugin |-> plugin, continue |-> continue, envType |-> envType,
   dryRun |-> dryRun, modelsLoad |-> modelsLoad, datasetLoads |-> datasetLoads,
   envValid |-> envValid, benchmarkResolves |-> runs_ok,
   validateCalled |-> FALSE, executeCalled |-> FALSE, sessionChanged |-> FALSE,
   error |-> "none"]

\* throw inside runBenchmark: the promise rejects with this message
CliThrow(c, msg) == [c EXCEPT !.pc = "rejected", !.error = msg]

\* sessionManager.initialize, new BenchmarkEngine, registerPlugin, then the plugin is
\* determined and looked up
CliSetup ==
  /\ cli.pc = "start"
  /\ LET pluginName == IF cli.plugin = ""
                         THEN CHOOSE n \in RegisteredPlugins : TRUE
                         ELSE cli.plugin
     IN  cli' = IF pluginName \in RegisteredPlugins
                  THEN [cli EXCEPT !.pc = IF cli.continue # "" THEN "load_session"
                                                                ELSE "models"]
                  ELSE CliThrow(cli, "Plugin not found")
  /\ UNCHANGED cliFrame

\* if (options.continue): sessionManager.loadSession(options.continue)
CliLoadSession ==
  /\ cli.pc = "load_session"
  /\ cli' = IF cli.continue = "stored"
              THEN [cli EXCEPT !.pc = "models"]
              ELSE CliThrow(cli, "Session not found")
  /\ UNCHANGED cliFrame

\* loadModelsFromConfig(session.config.models) / loadModels(options.models)
CliLoadModels ==
  /\ cli.pc = "models"
  /\ cli' = IF cli.modelsLoad THEN [cli EXCEPT !.pc = "dataset"]
                              ELSE CliThrow(cli, "models")
  /\ UNCHANGED cliFrame

\* loadDataset(...)
CliLoadDataset ==
  /\ cli.pc = "dataset"
  /\ cli' = IF cli.datasetLoads THEN [cli EXCEPT !.pc = "env"]
                                ELSE CliThrow(cli, "dataset")
  /\ UNCHANGED cliFrame

\* createExecutionEnvironment(type); the continue branch goes on to executeBenchmark,
\* the new run returns when options.dryRun is set and else goes on to
\* validateExecutionEnvironment
CliCreateEnv ==
  /\ cli.pc = "env"
  /\ cli' = IF cli.envType \notin {"local", "docker"}
              THEN CliThrow(cli, "Unknown execution environment")
              ELSE IF cli.continue # "" THEN [cli EXCEPT !.pc = "execute"]
              ELSE IF cli.dryRun THEN [cli EXCEPT !.pc = "returned"]
              ELSE [cli EXCEPT !.pc = "validate"]
  /\ UNCHANGED cliFrame

\* validateExecutionEnvironment(executionEnv, logger): env.validateEnvironment()
CliValidate ==
  /\ cli.pc = "validate"
  /\ cli' = IF cli.envValid
              THEN [cli EXCEPT !.pc = "execute", !.validateCalled = TRUE]
              ELSE [CliThrow(cli, "Environment validation failed")
                      EXCEPT !.validateCalled = TRUE]
  /\ UNCHANGED cliFrame

\* engine.executeBenchmark(...) is called: the session is created, or the stored one is
\* set to running, and saved; the call is awaited
CliExecute ==
  /\ cli.pc = "execute"
  /\ cli' = [cli EXCEPT !.pc = "executing", !.executeCalled = TRUE, !.sessionChanged = TRUE]
  /\ UNCHANGED cliFrame

\* executeBenchmark resolved: displayResults and return; or it rejected: throw error
CliExecuted ==
  /\ cli.pc = "executing"
  /\ cli' = IF cli.benchmarkResolves THEN [cli EXCEPT !.pc = "returned"]
                                     ELSE CliThrow(cli, "benchmark")
  /\ UNCHANGED cliFrame

NextCli ==
  \/ CliSetup
  \/ CliLoadSession
  \/ CliLoadModels
  \/ CliLoadDataset
  \/ CliCreateEnv
  \/ CliValidate
  \/ CliExecute
  \/ CliExecuted

\* runBenchmark has been called with some options in some environment
InitCli ==
  /\ SessInit
  /\ det = FALSE
  /\ rc = RcIdle /\ io = IoIdle /\ sm = SmNew
  /\ pl = PlIdle /\ mx = MxIdle
  /\ lg = LgIdle /\ fn = FnIdle
  /\ \E plugin \in PluginOpts, continue \in ContinueOpts, envType \in EnvTypeOpts,
        dryRun \in BOOLEAN, modelsLoad \in BOOLEAN, datasetLoads \in BOOLEAN,
        envValid \in BOOLEAN, runs_ok \in BOOLEAN :
       cli = CliStart(plugin, continue, envType, dryRun, modelsLoad, datasetLoads,
                      envValid, runs_ok)

SpecCli == InitCli /\ [][NextCli]_vars

\* ------------------------------------------------------------------ metrics
MaxResults == 3     \* test case results in the list given to calculateMetrics
MaxValues  == 3     \* values in a short list of durations or recorded metrics
LongRun    == 19    \* equal values in a long list, which one more value follows or precedes

\* a JavaScript number that is a quotient of two integers
Frac(n, d) == [num |-> n, den |-> d]
Zero == Frac(0, 1)

\* Math.ceil(num / den) for num >= 0
Ceil(num, den) == (num + den - 1) \div den

\* Math.max(a, b)
Max(a, b) == IF a >= b THEN a ELSE b

\* ValidationResult { type, passed }
Vr(type, passed) == [type |-> type, passed |-> passed]

\* TestCaseResult: status, validationResults (or undefined), duration,
\* llmResponse?.usage?.totalTokens (or undefined)
Tc(status, hasValidation, validationResults, duration, hasTokens, totalTokens) ==
  [status |-> status, hasValidation |-> hasValidation, validationResults |-> validationResults,
   duration |-> duration, hasTokens |-> hasTokens, totalTokens |-> totalTokens]

\* results as UnifiedDiffPlugin pushes them (a failed one has no validationResults), and
\* completed ones of a plugin that reports token usage and compilation
ResultOpts ==
  {Tc("completed", TRUE,
      <<Vr("format", TRUE), Vr("application", TRUE), Vr("syntax", TRUE)>>, 10, FALSE, 0),
   Tc("completed", TRUE,
      <<Vr("format", TRUE), Vr("application", TRUE), Vr("syntax", FALSE)>>, 30, FALSE, 0),
   Tc("completed", TRUE, <<Vr("format", FALSE)>>, 20, FALSE, 0),
   Tc("completed", TRUE, <<Vr("format", TRUE), Vr("application", FALSE)>>, 40, TRUE, 7),
   Tc("completed", TRUE, <<Vr("compilation", TRUE)>>, 100, TRUE, 0),
   Tc("completed", TRUE, <<>>, 0, FALSE, 0),
   Tc("failed", FALSE, <<>>, 50, FALSE, 0)}

\* durations and recorded values
ValueOpts == {0, 10, 30, 100}

\* the values of the test of calculateStatistics: 10, 20, ..., 100
TestValues == [i \in 1 .. 10 |-> i * 10]

\* the lists of values: the short ones, the ten of the test, and long ones
ValueLists ==
  SeqsUpTo(ValueOpts, MaxValues)
    \cup {TestValues}
    \cup {Repeat(v, LongRun) \o <<w>> : v \in ValueOpts, w \in ValueOpts}
    \cup {<<w>> \o Repeat(v, LongRun) : v \in ValueOpts, w \in ValueOpts}

\* the metric name that is asked for, and another one
StatName  == "stats-test-latency"
OtherName == "other-latency"

\* MetricData { name, value }
Metric(name, value) == [name |-> name, value |-> value]

\* this.metrics after recordLatency of the values, with a metric of another name first
\* when other is set
MetricsOf(vs, other) ==
  (IF other THEN <<Metric(OtherName, 1000)>> ELSE <<>>)
    \o [i \in 1 .. Len(vs) |-> Metric(StatName, vs[i])]

\* Array.prototype.filter
Filter(s, Keep(_)) ==
  LET kept == {i \in 1 .. Len(s) : Keep(s[i])}
  IN  [j \in 1 .. Cardinality(kept) |->
         s[CHOOSE i \in kept : Cardinality({h \in kept : h <= i}) = j]]

\* one step of sort((a, b) => a - b): x put into the ascending list s
Insert(s, x) ==
  LET k == Cardinality({i \in 1 .. Len(s) : s[i] <= x})
  IN  SubSeq(s, 1, k) \o <<x>> \o SubSeq(s, k + 1, Len(s))

\* sort((a, b) => a - b) of a list of numbers
RECURSIVE SortAscending(_)
SortAscending(s) ==
  IF s = <<>> THEN <<>>
  ELSE Insert(SortAscending(SubSeq(s, 1, Len(s) - 1)), s[Len(s)])

\* values.reduce((a, b) => a + b, 0)
Sum(s) == SumRange(s, 1, Len(s))

\* BenchmarkEngine.calculateMedian(values): the median, and values after the call
CalculateMedian(values) ==
  LET sorted == SortAscending(values)
      mid    == Len(sorted) \div 2
  IN  [value  |-> IF Len(sorted) % 2 = 0
                    THEN Frac(sorted[mid] + sorted[mid + 1], 2)
                    ELSE Frac(sorted[mid + 1], 1),
       values |-> values]

\* the index with Math.floor in place of Math.ceil
PercentileIndexFloor(n, pct) == Max(0, ((n * pct) \div 100) - 1)

\* Math.max(0, Math.ceil(sorted.length * percentile) - 1), the percentile given in
\* hundredths
PercentileIndex(n, pct) == Max(0, Ceil(n * pct, 100) - 1)

\* BenchmarkEngine.calculatePercentile(values, percentile): the element, and values after
\* the call
CalculatePercentile(values, pct) ==
  LET sorted == SortAscending(values)
  IN  [value  |-> sorted[PercentileIndex(Len(sorted), pct) + 1],
       values |-> values]

\* testCases.flatMap(tc => tc.validationResults || []).filter(vr => vr.type === type)
RECURSIVE RelevantResults(_, _)
RelevantResults(tcs, type) ==
  IF tcs = <<>> THEN <<>>
  ELSE LET tc      == tcs[Len(tcs)]
           OfType(vr) == vr.type = type
       IN  RelevantResults(SubSeq(tcs, 1, Len(tcs) - 1), type)
             \o Filter(IF tc.hasValidation THEN tc.validationResults ELSE <<>>, OfType)

\* BenchmarkEngine.calculateQualityMetric(testCases, type)
CalculateQualityMetric(tcs, type) ==
  LET relevantResults == RelevantResults(tcs, type)
      Passed(vr) == vr.passed
  IN  IF Len(relevantResults) = 0 THEN Zero
      ELSE Frac(Len(Filter(relevantResults, Passed)), Len(relevantResults))

\* tc.validationResults?.every(vr => vr.passed) ?? false
EveryPassed(tc) ==
  IF tc.hasValidation
    THEN \A j \in 1 .. Len(tc.validationResults) : tc.validationResults[j].passed
    ELSE FALSE

\* passedTests as all the completed tests
PassedTestsAllCompleted(completedTests) == completedTests

\* completedTests.filter(tc => tc.validationResults?.every(vr => vr.passed) ?? false)
PassedTests(completedTests) == Filter(completedTests, EveryPassed)

\* BenchmarkEngine.calculateMetrics(testCases)
CalculateMetrics(tcs) ==
  LET Completed(tc) == tc.status = "completed"
      Failed(tc)    == tc.status = "failed"
      HasTokens(tc) == tc.hasTokens
      totalTests     == Len(tcs)
      completedTests == Filter(tcs, Completed)
      passedTests    == PassedTests(completedTests)
      failedTests    == Filter(tcs, Failed)
      latencies      == [i \in 1 .. Len(completedTests) |-> completedTests[i].duration]
      withTokens     == Filter(completedTests, HasTokens)
      tokenUsage     == [i \in 1 .. Len(withTokens) |-> withTokens[i].totalTokens]
      totalTokens    == Sum(tokenUsage)
  IN  [totalTests  |-> totalTests,
       passedTests |-> Len(passedTests),
       failedTests |-> Len(failedTests),
       successRate |-> IF totalTests > 0 THEN Frac(Len(passedTests), totalTests) ELSE Zero,
       averageLatency |-> IF Len(latencies) > 0 THEN Frac(Sum(latencies), Len(latencies))
                                                ELSE Zero,
       medianLatency  |-> IF Len(latencies) > 0 THEN CalculateMedian(latencies).value
                                                ELSE Zero,
       p95Latency     |-> IF Len(latencies) > 0 THEN CalculatePercentile(latencies, 95).value
                                                ELSE 0,
       totalTokens    |-> totalTokens,
       averageTokensPerRequest |-> IF Len(tokenUsage) > 0
                                     THEN Frac(totalTokens, Len(tokenUsage)) ELSE Zero,
       syntaxCorrectness  |-> CalculateQualityMetric(completedTests, "syntax"),
       compilationSuccess |-> CalculateQualityMetric(completedTests, "compilation")]

\* values[index] || values[values.length - 1]
OrLast(values, index) ==
  IF values[index + 1] # 0 THEN values[index + 1] ELSE values[Len(values)]

\* MetricsCollector.calculateStatistics(metricName) on this.metrics; variance stands for
\* stdDev, its square root
CalculateStatistics(metrics, metricName) ==
  LET Named(m) == m.name = metricName
      relevantMetrics == Filter(metrics, Named)
      values == SortAscending([i \in 1 .. Len(relevantMetrics) |-> relevantMetrics[i].value])
      n      == Len(values)
  IN  IF n = 0
        THEN [mean |-> Zero, median |-> Zero, p95 |-> 0, p99 |-> 0, variance |-> Zero]
        ELSE [mean   |-> Frac(Sum(values), n),
              median |-> IF n % 2 = 0
                           THEN Frac(values[n \div 2] + values[(n \div 2) + 1], 2)
                           ELSE Frac(values[(n \div 2) + 1], 1),
              p95    |-> OrLast(values, Ceil(n * 95, 100) - 1),
              p99    |-> OrLast(values, Ceil(n * 99, 100) - 1),
              variance |-> Frac(n * Sum([i \in 1 .. n |-> values[i] * values[i]])
                                  - Sum(values) * Sum(values), n * n)]

\* the percentiles asked for, in hundredths
PercentileOpts == {0, 50, 95, 99, 100}

NoOut == [kind |-> "none"]

\* a list of test case results, a list of values and a collector before any call
MxStart(tcs, vs, metrics) ==
  [pc |-> "input", testCases |-> tcs, values |-> vs, metrics |-> metrics,
   pct |-> 0, out |-> NoOut]

\* executeWithErrorHandling: result.metrics = this.calculateMetrics(result.testCases)
MxCalculateMetrics ==
  /\ mx.pc = "input"
  /\ mx' = [mx EXCEPT !.pc = "metrics", !.out = CalculateMetrics(mx.testCases)]
  /\ UNCHANGED mxFrame

\* calculateMedian(values) on a list that is not empty
MxCalculateMedian ==
  /\ mx.pc = "input" /\ Len(mx.values) > 0
  /\ LET r == CalculateMedian(mx.values)
     IN  mx' = [mx EXCEPT !.pc = "median", !.out = r.value, !.values = r.values]
  /\ UNCHANGED mxFrame

\* calculatePercentile(values, percentile) on a list that is not empty
MxCalculatePercentile ==
  /\ mx.pc = "input" /\ Len(mx.values) > 0
  /\ \E pct \in PercentileOpts :
       LET r == CalculatePercentile(mx.values, pct)
       IN  mx' = [mx EXCEPT !.pc = "percentile", !.pct = pct, !.out = r.value,
                            !.values = r.values]
  /\ UNCHANGED mxFrame

\* collector.calculateStatistics(name)
MxCalculateStatistics ==
  /\ mx.pc = "input"
  /\ mx' = [mx EXCEPT !.pc = "statistics", !.out = CalculateStatistics(mx.metrics, StatName)]
  /\ UNCHANGED mxFrame

NextMetrics ==
  \/ MxCalculateMetrics
  \/ MxCalculateMedian
  \/ MxCalculatePercentile
  \/ MxCalculateStatistics

\* some list of results, or some list of values that is also recorded in a collector
InitMetrics ==
  /\ SessInit
  /\ det = FALSE
  /\ rc = RcIdle /\ io = IoIdle /\ sm = SmNew
  /\ pl = PlIdle /\ cli = CliIdle
  /\ lg = LgIdle /\ fn = FnIdle
  /\ \/ \E tcs \in SeqsUpTo(ResultOpts, MaxResults) : mx = MxStart(tcs, <<>>, <<>>)
     \/ \E vs \in ValueLists, other \in BOOLEAN : mx = MxStart(<<>>, vs, MetricsOf(vs, other))

SpecMetrics == InitMetrics /\ [][NextMetrics]_vars

\* ------------------------------------------------------------------ Logger
MaxLogCalls == 4    \* log calls on one Logger
MaxLogLimit == 2    \* the values of maxLogCount run over 0 .. MaxLogLimit

\* logLevels
LogLevels == [DEBUG |-> 0, INFO |-> 1, WARN |-> 2, ERROR |-> 3]

LevelNames == DOMAIN LogLevels

\* Array.prototype.slice(-n) for n >= 0: -0 is 0, so slice(-0) is the whole array
SliceFromEnd(s, n) ==
  IF n = 0 THEN s ELSE SubSeq(s, Max(Len(s) - n, 0) + 1, Len(s))

\* if (this.logs.length > this.maxLogCount) this.logs = this.logs.slice(-this.maxLogCount)
Rotate(logs, maxLogCount) ==
  IF Len(logs) > maxLogCount THEN SliceFromEnd(logs, maxLogCount) ELSE logs

\* new Logger(level, maxLogCount): no entries, one output; accepted and sent record what
\* passed the level check and what the output was called with
LgNew(level, maxLogCount) ==
  [pc |-> "ready", currentLevel |-> level, maxLogCount |-> maxLogCount, logs |-> <<>>,
   sent |-> <<>>, accepted |-> <<>>, calls |-> 0]

\* log(level, message): the level check, push, rotation, the outputs
LgLog ==
  /\ lg.pc = "ready" /\ lg.calls < MaxLogCalls
  /\ \E level \in LevelNames :
       LET logEntry == [level |-> level, message |-> lg.calls + 1]
       IN  lg' = IF LogLevels[level] < LogLevels[lg.currentLevel]
                   THEN [lg EXCEPT !.calls = @ + 1]
                   ELSE [lg EXCEPT !.calls = @ + 1,
                                   !.logs = Rotate(Append(@, logEntry), lg.maxLogCount),
                                   !.sent = Append(@, logEntry),
                                   !.accepted = Append(@, logEntry)]
  /\ UNCHANGED lgFrame

\* setMaxLogCount(maxCount)
LgSetMaxLogCount ==
  /\ lg.pc = "ready"
  /\ \E maxCount \in 0 .. MaxLogLimit :
       /\ maxCount # lg.maxLogCount
       /\ lg' = [lg EXCEPT !.maxLogCount = maxCount, !.logs = Rotate(@, maxCount)]
  /\ UNCHANGED lgFrame

NextLogger ==
  \/ LgLog
  \/ LgSetMaxLogCount

\* a Logger constructed with some level and some limit
InitLogger ==
  /\ SessInit
  /\ det = FALSE
  /\ rc = RcIdle /\ io = IoIdle /\ sm = SmNew
  /\ pl = PlIdle /\ cli = CliIdle /\ mx = MxIdle
  /\ fn = FnIdle
  /\ \E level \in LevelNames, maxLogCount \in 0 .. MaxLogLimit : lg = LgNew(level, maxLogCount)

SpecLogger == InitLogger /\ [][NextLogger]_vars

\* ------------------------------------------------------------------ findResumableSession
MaxStored == 2    \* sessions held by the SessionManager when findResumableSession is called

PluginNames == {"unified-diff", "other"}
SessionStatuses == {"running", "paused", "completed", "failed"}
UpdateTimes == {1, 2, 3}

\* the fields of a stored session that getSessionsByPlugin and findResumableSession read
StoredSessions ==
  [pluginName : PluginNames, status : SessionStatuses, completedTestCases : {0, 1},
   lastUpdateTime : UpdateTimes]

\* a filter that takes every paused or failed session
ResumableAnyFailed(session) == session.status \in {"paused", "failed"}

\* the filter of findResumableSession
Resumable(session) ==
  \/ session.status = "paused"
  \/ (session.status = "failed" /\ session.completedTestCases > 0)

\* this.listSessions().filter(session => session.pluginName === pluginName)
GetSessionsByPlugin(sessions, pluginName) ==
  Filter(sessions, LAMBDA session : session.pluginName = pluginName)

\* list.reduce((latest, current) =>
\*   current.lastUpdateTime > latest.lastUpdateTime ? current : latest), from latest on
RECURSIVE ReduceLatest(_, _)
ReduceLatest(latest, rest) ==
  IF rest = <<>> THEN latest
  ELSE ReduceLatest(IF Head(rest).lastUpdateTime > latest.lastUpdateTime
                      THEN Head(rest) ELSE latest,
                    Tail(rest))

\* findResumableSession(pluginName) over the sessions in the order of the map; NoSession
\* stands for null
FindResumableSession(sessions, pluginName) ==
  LET resumableSessions == Filter(GetSessionsByPlugin(sessions, pluginName), Resumable)
  IN  IF Len(resumableSessions) = 0 THEN NoSession
      ELSE ReduceLatest(Head(resumableSessions), Tail(resumableSessions))

\* findResumableSession returns
FnFindResumable ==
  /\ fn.pc = "called"
  /\ fn' = [fn EXCEPT !.pc = "returned",
                      !.result = FindResumableSession(fn.sessions, fn.pluginName)]
  /\ UNCHANGED fnFrame

NextResume ==
  \/ FnFindResumable

\* findResumableSession was called with some plugin name on some stored sessions
InitResume ==
  /\ SessInit
  /\ det = FALSE
  /\ rc = RcIdle /\ io = IoIdle /\ sm = SmNew
  /\ pl = PlIdle /\ cli = CliIdle /\ mx = MxIdle
  /\ lg = LgIdle
  /\ \E sessions \in SeqsUpTo(StoredSessions, MaxStored), pluginName \in PluginNames :
       fn = [pc |-> "called", sessions |-> sessions, pluginName |-> pluginName,
             result |-> NoSession]

SpecResume == InitResume /\ [][NextResume]_vars

\* ------------------------------------------------------------------ ConfigManager.mergeConfigs
MaxConfigs == 2    \* configuration files handed to mergeConfigs

\* the values of a parsed YAML document: arrays, objects (functions of their keys) and
\* primitives
Arr(s)  == [t |-> "array", v |-> s]
Obj(f)  == [t |-> "object", v |-> f]
Prim(x) == [t |-> "prim", v |-> x]

\* a key a document does not define
Absent == [t |-> "absent"]

\* the object with the keys of ks that def defines
ObjectOf(ks, def(_)) == [k \in {x \in ks : def(x) # Absent} |-> def(k)]

\* this.defaultConfig, the keys the files below touch
DefaultConfig ==
  [k \in {"plugins", "output", "timeout"} |->
     CASE k = "plugins" -> Arr(<<>>)
       [] k = "output"  -> Obj([j \in {"format", "path"} |->
                                 IF j = "format" THEN Prim("json") ELSE Prim("./reports")])
       [] k = "timeout" -> Prim(30000)]

\* the values of plugins, timeout and output in the configuration files
PluginsOpts == {Absent, Arr(<<"a">>), Arr(<<"b">>), Arr(<<"a", "a">>), Arr(<<"b", "a">>)}
TimeoutValOpts == {Absent, Prim(10000), Prim(20000)}
OutputOpts ==
  {Absent} \cup
  {Obj(ObjectOf({"format", "path"}, LAMBDA j : IF j = "format" THEN f ELSE p)) :
     f \in {Absent, Prim("yaml")}, p \in {Prim("./project-reports")}} \cup
  {Obj(ObjectOf({"format", "path"}, LAMBDA j : IF j = "format" THEN Prim("csv") ELSE Absent)),
   Obj(ObjectOf({"format", "path"}, LAMBDA j : IF j = "format" THEN Prim("yaml") ELSE Absent))}

\* a configuration path: no file there, a file that yaml.parse rejects, or a document
MissingFile == [kind |-> "missing"]
BadYaml == [kind |-> "bad"]
Document(p, t, o) ==
  [kind |-> "document",
   parsed |-> ObjectOf({"plugins", "timeout", "output"},
                       LAMBDA k : IF k = "plugins" THEN p ELSE IF k = "timeout" THEN t ELSE o)]
ConfigFiles ==
  {MissingFile, BadYaml} \cup
  {Document(p, t, o) : p \in PluginsOpts, t \in TimeoutValOpts, o \in OutputOpts}

\* value.filter(plugin => !existingPlugins.has(plugin)), existingPlugins = new Set(result[key])
NewPlugins(existing, value) ==
  Filter(value, LAMBDA plugin : ~\E i \in 1 .. Len(existing) : existing[i] = plugin)

\* deepMerge(target, source)
RECURSIVE DeepMerge(_, _)
DeepMerge(target, source) ==
  [key \in DOMAIN target \cup DOMAIN source |->
     IF key \notin DOMAIN source THEN target[key]
     ELSE IF key \notin DOMAIN target THEN source[key]
     ELSE IF key = "plugins" /\ source[key].t = "array" /\ target[key].t = "array"
       THEN Arr(target[key].v \o NewPlugins(target[key].v, source[key].v))
     ELSE IF source[key].t = "object" /\ target[key].t = "object"
       THEN Obj(DeepMerge(target[key].v, source[key].v))
     ELSE source[key]]

\* validateConfig(config) does not throw: the required fields are there with their
\* types, output.format is one of json, yaml, xml and output.path is a string
ValidConfig(config) ==
  /\ {"plugins", "output"} \subseteq DOMAIN config
  /\ config["plugins"].t = "array"
  /\ config["output"].t = "object"
  /\ "timeout" \in DOMAIN config => config["timeout"].t = "prim"
  /\ LET output == config["output"].v
     IN  /\ "format" \in DOMAIN output /\ output["format"] \in {Prim("json"), Prim("yaml"), Prim("xml")}
         /\ "path" \in DOMAIN output /\ output["path"].t = "prim"

\* mergeConfigs(configPaths) was called: mergedConfig = { ...this.defaultConfig }
CfgStart(files) ==
  [pc |-> "merging", files |-> files, done |-> 0, mergedConfig |-> DefaultConfig]

\* mergeConfigs: one iteration of the loop: a path without a file is skipped, a parse
\* failure is thrown as a ConfigurationError, a document is merged
CfgMergeFile ==
  /\ fn.pc = "merging"
  /\ fn.done < Len(fn.files)
  /\ LET file == fn.files[fn.done + 1]
     IN  fn' = IF file = MissingFile THEN [fn EXCEPT !.done = @ + 1]
               ELSE IF file = BadYaml THEN [fn EXCEPT !.pc = "thrown"]
               ELSE [fn EXCEPT !.done = @ + 1,
                               !.mergedConfig = DeepMerge(@, file.parsed)]
  /\ UNCHANGED fnFrame

\* mergeConfigs: after the loop: validateConfig(mergedConfig), return mergedConfig
CfgValidate ==
  /\ fn.pc = "merging"
  /\ fn.done = Len(fn.files)
  /\ fn' = [fn EXCEPT !.pc = IF ValidConfig(fn.mergedConfig) THEN "returned" ELSE "thrown"]
  /\ UNCHANGED fnFrame

NextConfig ==
  \/ CfgMergeFile
  \/ CfgValidate

\* mergeConfigs was called on some list of configuration paths
InitConfig ==
  /\ SessInit
  /\ det = FALSE
  /\ rc = RcIdle /\ io = IoIdle /\ sm = SmNew
  /\ pl = PlIdle /\ cli = CliIdle /\ mx = MxIdle
  /\ lg = LgIdle
  /\ \E files \in SeqsUpTo(ConfigFiles, MaxConfigs) : fn = CfgStart(files)

SpecConfig == InitConfig /\ [][NextConfig]_vars

\* ------------------------------------------------------------------ properties
\* the session documents that exist: the one in memory and the one in the file
Documents == {d \in {sess, disk} : IsSession(d)}

\* result r is in the session file
OnDisk(r) == IsSession(disk) /\ \E i \in 1 .. Len(disk.results) : disk.results[i] = r

\* pairs finished by the plugin in the current run whose result the file does not hold
LostOnKill == {k \in 1 .. Len(testCases) : ~OnDisk(testCases[k])}

\* C1: in every reachable state of a session, completedTestCases + failedTestCases +
\* skippedTestCases <= totalTestCases.
C1_ProgressWithinTotal ==
  \A d \in Documents : d.completed + d.failed + d.skipped <= d.total

\* C2: at any point of executeBenchmark where the process may be killed, the session file
\* holds the outcome of every finished pair of the run except at most one.
C2_AtMostOneLostOnKill ==
  pc = "plugin" => Cardinality(LostOnKill) <= 1

\* C3: after the first pair completed and the process was killed before the second pair
\* started, a resumed run does not execute the first pair again (it skips it).
C3_ResumeSkipsCompletedPair ==
  (killedAfterFirst /\ pc = "plugin" /\ idx > 1)
    => FindCompleted(sess.results, CompositeId(1)) # 0

\* the results of an uninterrupted run over the same inputs in a deterministic environment
ExpectedResults == [k \in PairIdx |-> MkResult(k, outcome[k])]

\* C4: idempotent resume: with deterministic pair outcomes, a run that returns (after
\* kills and resumes or not) leaves exactly the results of an uninterrupted run: one
\* entry per pair, in memory and in the file.
C4_IdempotentResume ==
  (pc = "idle" /\ callResult = "returned" /\ det)
    => /\ sess.results = ExpectedResults
       /\ IsSession(disk) /\ disk.results = ExpectedResults

C4_Witness ==
  /\ pc = "idle" /\ callResult = "returned" /\ det
  /\ killedAfterFirst /\ runs = 2
  /\ \E k \in PairIdx : outcome[k] = "failed"

C7_PartialResultsPersisted ==
  (pc = "idle" /\ callResult = "plugin_error")
    => \A k \in 1 .. Len(testCases) : OnDisk(testCases[k])

\* the edges of the session state machine
AllowedEdge(from, to, s) ==
  \/ from = "running" /\ to \in {"completed", "failed", "paused"}
  \/ from = "paused" /\ to = "running"
  \/ from = "failed" /\ to = "running" /\ s.completed > 0

\* C8: a session's status changes only along running->completed, running->failed,
\* running->paused, paused->running and failed->running (the latter with
\* completedTestCases > 0).
C8_StatusEdges ==
  [][(IsSession(sess) /\ IsSession(sess') /\ sess.status # sess'.status)
       => AllowedEdge(sess.status, sess'.status, sess)]_vars

\* C9: a concurrent reader of the session file sees the previous or the new complete
\* document, never an empty or partly written file.
C9_ReaderSeesWholeDocument == observed # "partial"


\* C10: every runCode call is time-bounded on both backends: the execution it started
\* does not outlive the timeout (30000 ms when unset), and a call that ended on the
\* timeout returned successful = false, exitCode = -1 and an error.
C10_RunCodeTimeBounded ==
  /\ Executing => rc.now <= rc.started + rc.timeout
  /\ (rc.pc = "returned" /\ rc.isTimedOut)
       => (rc.result.successful = FALSE /\ rc.result.exitCode = 0 - 1
           /\ rc.result.error = "timeout")

\* C11: after a local runCode call has returned because its timeout expired, no process
\* started by the call is still running, the processes forked by an sh -c child included.
C11_NoProcessLeftAfterTimeout ==
  (rc.backend = "local" /\ rc.pc = "returned" /\ rc.isTimedOut)
    => (rc.child # "running" /\ rc.grandchild # "running")

\* C12: for every container Docker runCode created, container.remove has been invoked
\* when runCode returns, after success and after a failure of start, log reading or wait;
\* the returned result is the run's (or the failure's) whether or not the removal failed.
C12_ContainerRemovalInvoked ==
  (rc.backend = "docker" /\ rc.pc = "returned" /\ rc.container # "none")
    => /\ rc.removal # "none"
       /\ rc.result = IF rc.err = "none" THEN ExitResult(rc.prog.exit)
                                         ELSE ErrorResult(rc.err)

\* a start, log or wait failure was followed by a removal that failed too
C12_Witness ==
  /\ rc.backend = "docker" /\ rc.pc = "returned"
  /\ rc.container \in {"created", "exited"}
  /\ rc.err = "infrastructure"
  /\ rc.removal = "failed"
  /\ rc.result = ErrorResult("infrastructure")

C14_FailuresAreResults ==
  /\ rc.pc # "rejected"
  /\ (rc.pc = "returned" /\ rc.err # "none")
       => /\ rc.result.successful = FALSE
          /\ rc.result.exitCode = 0 - 1
          /\ rc.result.error = rc.err

\* a local call whose process could not be spawned returned the failure
C14_Witness ==
  /\ rc.backend = "local" /\ rc.pc = "returned"
  /\ rc.child = "failed" /\ rc.promise = "rejected"
  /\ rc.err = "infrastructure"

\* the static table of the backend: the cases of the local switch, the keys of
\* defaultImages
StaticTable(backend) ==
  IF backend = "local" THEN LocalDirectCases \cup LocalShellCases ELSE DockerDefaultImages

\* C15: for a language that is not in the backend's static table (compared in lower
\* case) runCode fails as unsupported before any process is spawned, image pulled or
\* container created (a local call may fail on the file system first); and
\* isLanguageSupported is true exactly for the languages in the table.
C15_UnsupportedLanguageFailsFirst ==
  rc.pc = "returned" =>
    LET unsupported == ~IsLanguageSupported(rc.backend, rc.lang)
    IN  /\ unsupported <=> ToLowerCase(rc.lang) \notin StaticTable(rc.backend)
        /\ unsupported
             => /\ rc.child = "none" /\ ~rc.pulled /\ rc.container = "none"
                /\ \/ rc.result.error = "unsupported"
                   \/ rc.backend = "local" /\ rc.result.error = "infrastructure"
        /\ ~unsupported => rc.result.error # "unsupported"

\* C16: the container Docker runCode starts has the main source file and every
\* options.files entry in its working directory.
C16_SourcesInContainer ==
  rc.container = "running"
    => ContainerFiles(ToLowerCase(rc.lang), rc.files) \subseteq rc.cfiles

\* the payloads of the frames with selector sel, concatenated in order
RECURSIVE Payloads(_, _)
Payloads(fs, sel) ==
  IF fs = <<>> THEN <<>>
  ELSE (IF Head(fs).sel = sel THEN Head(fs).payload ELSE <<>>) \o Payloads(Tail(fs), sel)

\* C17: for any sequence of complete frames with selector 1 or 2 and any cutting of the
\* byte stream into read chunks, parseContainerLogs returns as stdout the concatenation
\* of the selector-1 payloads (as text) and as stderr that of the selector-2 payloads.
C17_DemuxReturnsPayloads ==
  io.pc = "resolved"
    => /\ io.stdout = Utf8Decode(Payloads(io.frames, 1))
       /\ io.stderr = Utf8Decode(Payloads(io.frames, 2))

\* the bytes of field s up to its first NUL
RECURSIVE UpToNul(_)
UpToNul(s) == IF s = <<>> \/ Head(s) = 0 THEN <<>> ELSE <<Head(s)>> \o UpToNul(Tail(s))

\* the length of n bytes of data with its padding to the 512-byte boundary
Padded(n) == ((n + 511) \div 512) * 512

\* a reader of the standard header layout: name at 0 (100 bytes), size at 124 (11 octal
\* digits), the data after the 512-byte header, the next header at the next boundary
RECURSIVE ParseArchive(_)
ParseArchive(a) ==
  IF Len(a) < 512 THEN <<>>
  ELSE LET size == OctalValue(SubSeq(a, 125, 135))
       IN  <<[name |-> UpToNul(SubSeq(a, 1, 100)), data |-> SubSeq(a, 513, 512 + size)]>>
             \o ParseArchive(SubSeq(a, 513 + Padded(size), Len(a)))

\* the files as a reader should give them back: the name's bytes and the data
RECURSIVE Entries(_)
Entries(files) ==
  IF files = <<>> THEN <<>>
  ELSE <<[name |-> Utf8Encode(Head(files).name), data |-> Head(files).data]>>
         \o Entries(Tail(files))

\* the archive's length for the files: a header and the padded data per file
RECURSIVE ArchiveLength(_)
ArchiveLength(files) ==
  IF files = <<>> THEN 0 ELSE 512 + Padded(Len(Head(files).data)) + ArchiveLength(Tail(files))

\* the files have names of at most 100 bytes
NamesFit(files) == \A i \in 1 .. Len(files) : Len(Utf8Encode(files[i].name)) <= 100

\* C18: archive round trip: for files with names of at most 100 bytes, the stream of
\* createTarStream, read to its end, is one 512-byte header per file followed by the
\* data padded with zeros to the next 512-byte boundary, and a reader of the standard
\* layout gets each file's name, size and bytes back.
C18_ArchiveRoundTrip ==
  (io.pc \in {"ended", "errored"} /\ NamesFit(io.files))
    => /\ io.pc = "ended"
       /\ Len(io.pushed) = ArchiveLength(io.files)
       /\ ParseArchive(io.pushed) = Entries(io.files)

\* the header with the checksum field counted as eight spaces
WithSpaces(h) == SubSeq(h, 1, 148) \o Repeat(32, 8) \o SubSeq(h, 157, Len(h))

OctalDigits(s) == \A i \in 1 .. Len(s) : s[i] \in 48 .. 55

\* C19: in every header of createTarHeader the checksum field (bytes 148-155) is six
\* octal digits, NUL, space, and its value is the sum of the 512 header bytes with the
\* field counted as eight spaces; the sum fits six octal digits and the size field is
\* eleven octal digits (and a space) that denote the size.
C19_HeaderChecksum ==
  io.pc = "header" =>
    LET h   == io.header
        sum == SumBytes(WithSpaces(h))
    IN  /\ Len(h) = 512
        /\ OctalDigits(SubSeq(h, 149, 154)) /\ h[155] = 0 /\ h[156] = 32
        /\ OctalValue(SubSeq(h, 149, 154)) = sum
        /\ Len(ToOctal(sum)) <= 6
        /\ Len(ToOctal(io.size)) <= 11
        /\ OctalDigits(SubSeq(h, 125, 135)) /\ h[136] = 32
        /\ OctalValue(SubSeq(h, 125, 135)) = io.size

\* the header of the largest accepted size under a name of two-byte characters
C19_Witness ==
  /\ io.pc = "header"
  /\ io.size = MaxStringBytes
  /\ io.name = <<233, 46, 112, 121>>
  /\ io.mtime = 1762300800

\* C20: createSession for a registered plugin returns a session with status running,
\* totalTestCases = |models| x |testCases|, the other counters 0 and no results, and the
\* session file holds it when it is returned; for an unregistered plugin createSession
\* throws and neither a session nor a file exists.
C20_CreateSession ==
  /\ (pc = "idle" /\ cpc = "idle" /\ callResult = "created")
       => /\ IsSession(sess)
          /\ sess.status = "running"
          /\ sess.total = Len(Models) * Len(TestCases)
          /\ sess.completed = 0 /\ sess.failed = 0 /\ sess.skipped = 0
          /\ sess.results = <<>>
          /\ disk = sess
  /\ callResult = "plugin_not_found"
       => (sess = NoSession /\ disk = NoFile /\ wdoc = NoSession)

\* createSession has returned the new session after saving it
C20_Witness ==
  /\ pc = "idle" /\ callResult = "created"
  /\ IsSession(disk) /\ disk.total = NumPairs /\ disk.results = <<>>

\* the sessions whose files hold a whole session document
ValidOnDisk == {sm.files[f] : f \in {g \in FileKeys : IsSession(sm.files[g])}}

\* C21: after initialize(), whatever the number and position of the files that are no
\* sessions, listSessions returns exactly the sessions of the valid session files.
C21_EnumerationSkipsBadFiles ==
  (sm.pc = "ready" /\ sm.last.op = "initialize")
    => ListSessions(sm.sessions) = ValidOnDisk

\* C22: a disk write failure in saveSession makes the calling createSession,
\* updateSession or executeBenchmark reject and adds no entry to the session map;
\* loadSession of an id without a file returns null and leaves the map as it was.
C22_SaveFailurePropagates ==
  /\ (sm.pc = "ready" /\ sm.last.writeFailed)
       => (sm.last.outcome = "rejected" /\ ~sm.last.added)
  /\ sm.last.missing => (sm.last.outcome = "null" /\ ~sm.last.changed)

\* executeBenchmark has rejected after its first write failed
C22_Witness ==
  /\ sm.pc = "ready"
  /\ sm.last.op = "executeBenchmark" /\ sm.last.writeFailed
  /\ sm.last.outcome = "rejected"
  /\ sm.files["s1"] = Partial

\* C23: every operation that writes a session file writes a lastUpdateTime equal to the
\* time of the write, and the lastUpdateTime in a session's file never decreases.
C23_LastUpdateTimeRefreshed ==
  sm.last.wrote => (sm.last.lut = sm.last.at /\ sm.last.lut >= sm.last.before)

\* C26: once pauseSession has set a running session to paused during plugin.execute, the
\* run that is under way does not mark the session completed.
C26_PauseStopsRun ==
  [][(pc = "plugin" /\ IsSession(sess) /\ sess.status = "paused")
       => ~(pc' = "done_save" /\ sess'.status = "completed")]_vars

\* the maximum that the caller configured
ConfiguredMaxRetries(p) == IF p.set THEN p.n ELSE MaxRetriesDefault

\* the results pushed so far and the one being worked on
PlResults ==
  IF pl.pc = "idle" THEN {}
  ELSE {pl.testCases[i] : i \in 1 .. Len(pl.testCases)}
         \cup (IF pl.pc \in {"attempt", "backoff", "returned", "thrown"} THEN {pl.result} ELSE {})

C25_ErrorOnlyWhenFailed ==
  pl.pc # "idle" =>
    \A i \in 1 .. Len(pl.testCases) :
      pl.testCases[i].error # "none" => pl.testCases[i].status = "failed"

\* C27: in a new run and in a continued run, validateEnvironment has been called before
\* executeBenchmark is, and with an environment that is not valid executeBenchmark is
\* not called and no session is changed.
C27_ValidatedBeforeExecute ==
  cli.pc # "idle" =>
    /\ cli.executeCalled => cli.validateCalled
    /\ ~cli.envValid => (~cli.executeCalled /\ ~cli.sessionChanged)

\* two quotients are the same number
FracEq(a, b) == a.num * b.den = b.num * a.den

\* the quotient n / d, and 0 when d is 0
Rate(n, d) == IF d = 0 THEN Zero ELSE Frac(n, d)

\* the results of the list with status completed
CompletedOf(tcs) == {i \in 1 .. Len(tcs) : tcs[i].status = "completed"}

\* the validation results of type ty of the completed results, by position
OfType(tcs, ty) ==
  UNION {{<<i, j>> : j \in {h \in 1 .. Len(tcs[i].validationResults) :
                              tcs[i].validationResults[h].type = ty}} :
           i \in {c \in CompletedOf(tcs) : tcs[c].hasValidation}}

\* C28: calculateMetrics gives successRate = completed results whose validation results
\* all passed / all results, each quality score = passed validation results of the type /
\* validation results of the type, and 0 wherever the denominator is 0.
C28_MetricsRates ==
  mx.pc = "metrics" =>
    LET tcs    == mx.testCases
        passed == {i \in CompletedOf(tcs) :
                     /\ tcs[i].hasValidation
                     /\ \A j \in 1 .. Len(tcs[i].validationResults) :
                          tcs[i].validationResults[j].passed}
        tokens == {i \in CompletedOf(tcs) : tcs[i].hasTokens}
        Score(ty) == Rate(Cardinality({p \in OfType(tcs, ty) :
                                         tcs[p[1]].validationResults[p[2]].passed}),
                          Cardinality(OfType(tcs, ty)))
    IN  /\ FracEq(mx.out.successRate, Rate(Cardinality(passed), Len(tcs)))
        /\ FracEq(mx.out.syntaxCorrectness, Score("syntax"))
        /\ FracEq(mx.out.compilationSuccess, Score("compilation"))
        /\ \A f \in {"successRate", "averageLatency", "medianLatency",
                     "averageTokensPerRequest", "syntaxCorrectness", "compilationSuccess"} :
             mx.out[f].den # 0
        /\ CompletedOf(tcs) = {} =>
             /\ mx.out.averageLatency = Zero /\ mx.out.medianLatency = Zero
             /\ mx.out.p95Latency = 0
        /\ tokens = {} => (mx.out.totalTokens = 0 /\ mx.out.averageTokensPerRequest = Zero)
        /\ tcs = <<>> => mx.out.successRate = Zero

\* three results of which one passed all its validations, with one of two syntax
\* validations passed
C28_Witness ==
  /\ mx.pc = "metrics"
  /\ Len(mx.testCases) = 3
  /\ FracEq(mx.out.successRate, Frac(1, 3))
  /\ FracEq(mx.out.syntaxCorrectness, Frac(1, 2))

\* the number of values of the list below x, and up to x
Below(vs, x) == Cardinality({i \in 1 .. Len(vs) : vs[i] < x})
UpTo(vs, x)  == Cardinality({i \in 1 .. Len(vs) : vs[i] <= x})

\* the k-th value of the list in ascending order, k from 1
KthSmallest(vs, k) ==
  CHOOSE x \in {vs[i] : i \in 1 .. Len(vs)} : Below(vs, x) < k /\ k <= UpTo(vs, x)

\* the least integer that is at least n * pct / 100
CeilOfHundredths(n, pct) == CHOOSE c \in 0 .. n * pct : c * 100 >= n * pct /\ (c - 1) * 100 < n * pct

\* ceil(n * pct / 100) - 1 clamped to 0 .. n - 1, as a position from 1
ClampedPosition(n, pct) ==
  LET i == CeilOfHundredths(n, pct) - 1
  IN  (IF i < 0 THEN 0 ELSE IF i > n - 1 THEN n - 1 ELSE i) + 1

\* the median of a list that is not empty
MedianOf(vs) ==
  LET n == Len(vs)
  IN  IF n % 2 = 0
        THEN Frac(KthSmallest(vs, n \div 2) + KthSmallest(vs, (n \div 2) + 1), 2)
        ELSE Frac(KthSmallest(vs, (n + 1) \div 2), 1)

\* C29: of a list of n >= 1 durations the engine's median is the mean of the two central
\* values in ascending order for even n and the middle value otherwise, its percentile p
\* is the value at index ceil(n * p) - 1 clamped to 0 .. n - 1, and the list given is in
\* the same order after the call.
C29_MedianPercentile ==
  /\ mx.pc = "median" => FracEq(mx.out, MedianOf(mx.values))
  /\ mx.pc = "percentile" =>
       mx.out = KthSmallest(mx.values, ClampedPosition(Len(mx.values), mx.pct))
  /\ mx.pc \in {"median", "percentile"} =>
       \* mx.metrics keeps the values in the order in which the list was given
       \E other \in BOOLEAN : mx.metrics = MetricsOf(mx.values, other)

\* the 95th percentile of three values given in descending order is the largest
C29_Witness ==
  /\ mx.pc = "percentile" /\ mx.pct = 95
  /\ mx.values = <<100, 30, 10>>
  /\ mx.out = 100

\* C30: calculateStatistics(name) gives, of the n values recorded under the name, p95 and
\* p99 as the values at the indexes ceil(n * 0.95) - 1 and ceil(n * 0.99) - 1 in ascending
\* order with p95 <= p99 <= max, their mean and median, and 0 for all when n = 0; of
\* 10, 20, ..., 100 the mean and the median are 55, p95 > 90 and p99 > 95.
C30_Statistics ==
  mx.pc = "statistics" =>
    LET vs == mx.values
        n  == Len(vs)
    IN  IF n = 0
          THEN /\ mx.out.mean = Zero /\ mx.out.median = Zero
               /\ mx.out.p95 = 0 /\ mx.out.p99 = 0 /\ mx.out.variance = Zero
          ELSE /\ mx.out.p95 = KthSmallest(vs, CeilOfHundredths(n, 95))
               /\ mx.out.p99 = KthSmallest(vs, CeilOfHundredths(n, 99))
               /\ mx.out.p95 <= mx.out.p99 /\ mx.out.p99 <= KthSmallest(vs, n)
               /\ FracEq(mx.out.mean, Frac(Sum(vs), n))
               /\ FracEq(mx.out.median, MedianOf(vs))
               /\ vs = TestValues =>
                    /\ FracEq(mx.out.mean, Frac(55, 1)) /\ FracEq(mx.out.median, Frac(55, 1))
                    /\ mx.out.p95 > 90 /\ mx.out.p99 > 95

\* C31: after any log and setMaxLogCount calls the Logger stores at most maxLogCount
\* entries, they are the latest accepted ones in their order, and no entry below the
\* current level is stored or was sent to an output.
C31_LogRotation ==
  lg.pc = "ready" =>
    /\ Len(lg.logs) <= lg.maxLogCount
    /\ Len(lg.logs) <= Len(lg.accepted)
    /\ lg.logs = SubSeq(lg.accepted, Len(lg.accepted) - Len(lg.logs) + 1, Len(lg.accepted))
    /\ \A i \in 1 .. Len(lg.logs) :
         LogLevels[lg.logs[i].level] >= LogLevels[lg.currentLevel]
    /\ \A i \in 1 .. Len(lg.sent) :
         LogLevels[lg.sent[i].level] >= LogLevels[lg.currentLevel]

\* the entries of results with the id of pair k and status completed
CompletedEntries(results, k) ==
  {i \in 1 .. Len(results) :
     results[i].testCaseId = CompositeId(k) /\ results[i].status = "completed"}

\* C32: in a run of the plugin a pair is skipped, with no change of the progress counters
\* and its earlier result carried over unchanged, exactly when session.results holds a
\* completed entry with the pair's id; any other pair, one with an earlier failed result
\* included, is executed and counted; session.results stays as it was at the start of the
\* run while the loops go.
C32_SkipRule ==
  [][(pc = "plugin" /\ pc' = "plugin")
       => /\ sess'.results = sess.results
          /\ idx' = idx + 1 =>
               IF CompletedEntries(sess.results, idx) # {}
                 THEN /\ sess' = sess
                      /\ \E i \in CompletedEntries(sess.results, idx) :
                           testCases' = Append(testCases, sess.results[i])
                 ELSE /\ sess'.completed = sess.completed + 1
                      /\ Len(testCases') = Len(testCases) + 1
                      /\ testCases'[Len(testCases')].testCaseId = CompositeId(idx)
                      /\ SubSeq(testCases', 1, Len(testCases)) = testCases]_vars

\* a second run has carried the first pair's completed result over and has executed the
\* second pair, whose earlier result was failed, again
C32_Witness ==
  /\ pc = "plugin" /\ runs = 2 /\ idx = 3
  /\ Len(sess.results) = NumPairs
  /\ sess.results[1].status = "completed" /\ sess.results[2].status = "failed"
  /\ testCases[1] = sess.results[1]
  /\ sess.completed = NumPairs + 1

\* the position of x in the list s
PositionIn(s, x) == CHOOSE i \in 1 .. Len(s) : s[i] = x

\* C33: within a run the results are appended in the order of the models list and, under
\* each model, in the order of the test cases, one pair after the other: the pair that
\* is next is the one after the last recorded result.
C33_SequentialOrder ==
  pc = "plugin" =>
    /\ Len(testCases) = idx - 1
    /\ \A i, j \in 1 .. Len(testCases) :
         i < j =>
           LET mi == PositionIn(Models, testCases[i].modelId)
               mj == PositionIn(Models, testCases[j].modelId)
               ti == PositionIn(TestCases, testCases[i].testCaseId[1])
               tj == PositionIn(TestCases, testCases[j].testCaseId[1])
           IN  mi < mj \/ (mi = mj /\ ti < tj)

\* all pairs of a run have their results, the last one of the last model and test case
C33_Witness ==
  /\ pc = "plugin" /\ idx = NumPairs + 1
  /\ testCases[1].modelId = Models[1]
  /\ testCases[Len(TestCases) + 1].modelId = Models[2]
  /\ testCases[NumPairs].testCaseId[1] = TestCases[Len(TestCases)]

\* C34: the delays before the further attempts of a pair start at 1000 ms and grow by a
\* constant multiplier, there is no delay after the last failed attempt, and there are
\* at most maxRetries - 1 delays.
C34_ExponentialBackoff ==
  pl.pc \in {"attempt", "backoff", "returned", "thrown"} =>
    LET d == pl.delays
    IN  /\ Len(d) <= ConfiguredMaxRetries(pl.properties) - 1
        /\ Len(d) >= 1 => d[1] = 1000
        /\ \A i \in 2 .. Len(d) - 1 : d[i + 1] * d[i - 1] = d[i] * d[i]
        /\ pl.pc = "thrown" => Len(d) = pl.result.failures - 1

\* the number of the leading frames of fs that lie wholly within the first n bytes
CompleteFrames(fs, n) ==
  CHOOSE k \in 0 .. Len(fs) :
    /\ Len(Mux(SubSeq(fs, 1, k))) <= n
    /\ k < Len(fs) => Len(Mux(SubSeq(fs, 1, k + 1))) > n

\* the texts of the payloads of the frames of fs with selector sel, one after the other
RECURSIVE Texts(_, _)
Texts(fs, sel) ==
  IF fs = <<>> THEN <<>>
  ELSE (IF Head(fs).sel = sel THEN Utf8Decode(Head(fs).payload) ELSE <<>>)
         \o Texts(Tail(fs), sel)

\* C35: parseContainerLogs on a stream that ends inside a header or a payload returns
\* what the complete frames before that point hold and nothing of the incomplete frame;
\* a complete frame with a selector other than 1 and 2 adds nothing and the frames
\* after it are still read.
C35_TruncatedStream ==
  io.pc = "resolved" =>
    LET kept == SubSeq(io.frames, 1, CompleteFrames(io.frames, Len(Concat(io.chunks))))
    IN  /\ io.stdout = Texts(kept, 1)
        /\ io.stderr = Texts(kept, 2)

\* a frame of another selector, a complete stdout frame and a stderr frame cut inside its
\* payload: only the stdout frame's text is returned
C35_Witness ==
  /\ io.pc = "resolved"
  /\ Len(io.frames) = 2
  /\ io.frames[1].sel = 1 /\ io.frames[2].sel = 2
  /\ Len(Concat(io.chunks)) = Len(Mux(io.frames)) - 1
  /\ io.stdout = <<104>> /\ io.stderr = <<>>

\* C36: local runCode reports successful = true with exitCode 0 only for a process that
\* exited by itself with exit code 0; a process ended by a signal other than the
\* timeout's is not reported as successful.
C36_RealExitStatus ==
  (rc.backend = "local" /\ rc.pc = "returned" /\ rc.result.successful)
    => (rc.child = "exited" /\ rc.prog.exit = 0 /\ rc.result.exitCode = 0)

\* the outcome of the promise of executeCommand as runCode sees it
Outcome(r) == <<r.promise, r.err, r.result>>

\* C37: the promise of executeCommand settles once: a settled promise keeps its outcome
\* whatever handler runs later; when the timer fired while the promise was pending the
\* outcome is the timeout error; and once 'close' or 'error' has run with the timer
\* unfired, the timer is cancelled, it never fires, never kills the process and the
\* outcome is never the timeout error.
C37_SettlesOnce ==
  [][rc.backend = "local" =>
       /\ rc.promise \in {"resolved", "rejected"} => Outcome(rc') = Outcome(rc)
       /\ (rc.promise = "pending" /\ rc'.timer = "fired")
            => (rc'.promise = "rejected" /\ rc'.err = "timeout")
       /\ (rc.timer # "fired" /\ (rc.closeSeen \/ rc.child = "failed"))
            => /\ rc.timer = "cleared" /\ rc'.timer = "cleared"
               /\ ~rc.isTimedOut /\ rc.child # "killed" /\ rc.err # "timeout"]_vars

\* the timer fired on a process that had exited but whose 'close' had not run; the
\* 'close' that followed left the timeout error in place
C37_Witness ==
  /\ rc.backend = "local" /\ rc.timer = "fired" /\ rc.child = "exited"
  /\ rc.closeSeen /\ rc.promise = "rejected" /\ rc.err = "timeout"

\* the stored sessions of the called plugin that are paused, or failed with progress
Candidates ==
  {fn.sessions[i] : i \in {j \in 1 .. Len(fn.sessions) :
     /\ fn.sessions[j].pluginName = fn.pluginName
     /\ \/ fn.sessions[j].status = "paused"
        \/ (fn.sessions[j].status = "failed" /\ fn.sessions[j].completedTestCases > 0)}}

\* C38: findResumableSession(pluginName) returns null when no session of that plugin is
\* paused or failed with completedTestCases > 0, and otherwise one of those sessions
\* whose lastUpdateTime is the greatest among them; a running or completed session is
\* never returned.
C38_FindResumable ==
  fn.pc = "returned" =>
    /\ Candidates = {} <=> fn.result = NoSession
    /\ Candidates # {} =>
         /\ fn.result \in Candidates
         /\ \A c \in Candidates : c.lastUpdateTime <= fn.result.lastUpdateTime
         /\ fn.result.status \notin {"running", "completed"}

\* a failed session with progress is returned although an older paused one and a newer
\* failed one without progress are stored
C38_Witness ==
  /\ fn.pc = "returned"
  /\ Len(fn.sessions) = 2
  /\ fn.sessions[1].pluginName = fn.pluginName /\ fn.sessions[2].pluginName = fn.pluginName
  /\ fn.sessions[1].status = "paused" /\ fn.sessions[1].lastUpdateTime = 1
  /\ fn.sessions[2].status = "failed" /\ fn.sessions[2].completedTestCases = 1
  /\ fn.sessions[2].lastUpdateTime = 2
  /\ fn.result = fn.sessions[2]

\* the documents among the files of the call, in the order of the list
ParsedDocuments == Filter(fn.files, LAMBDA file : file.kind = "document")

\* the plugins the documents name, file after file
RECURSIVE NamedPlugins(_)
NamedPlugins(docs) ==
  IF docs = <<>> THEN <<>>
  ELSE (IF "plugins" \in DOMAIN Head(docs).parsed THEN Head(docs).parsed["plugins"].v ELSE <<>>)
         \o NamedPlugins(Tail(docs))

\* s without the later occurrences of its elements
FirstOccurrences(s) ==
  LET first == {i \in 1 .. Len(s) : ~\E j \in 1 .. i - 1 : s[j] = s[i]}
  IN  [k \in 1 .. Cardinality(first) |->
         s[CHOOSE i \in first : Cardinality({h \in first : h <= i}) = k]]

\* the value Get reads from the last document in which it is defined, or from the defaults
LastDefined(docs, Get(_)) ==
  LET defined == {i \in 1 .. Len(docs) : Get(docs[i].parsed) # Absent}
  IN  IF defined = {} THEN Get(DefaultConfig)
      ELSE Get(docs[CHOOSE i \in defined : \A j \in defined : j <= i].parsed)

\* config.timeout, config.output.format, config.output.path, Absent when not defined
GetTimeout(config) == IF "timeout" \in DOMAIN config THEN config["timeout"] ELSE Absent
GetOutput(config, field) ==
  IF "output" \in DOMAIN config /\ field \in DOMAIN config["output"].v
    THEN config["output"].v[field] ELSE Absent

\* C39: the configuration mergeConfigs returns has as plugins every plugin named in any
\* file, in the order of first occurrence and each once; every other value is the one of
\* the last file that defines it, and a value only earlier files or the defaults define
\* is kept.
C39_MergeConfigs ==
  fn.pc = "returned" =>
    /\ fn.mergedConfig["plugins"].v = FirstOccurrences(NamedPlugins(ParsedDocuments))
    /\ GetTimeout(fn.mergedConfig) = LastDefined(ParsedDocuments, GetTimeout)
    /\ \A field \in {"format", "path"} :
         GetOutput(fn.mergedConfig, field)
           = LastDefined(ParsedDocuments, LAMBDA config : GetOutput(config, field))

====
